---- MODULE Spec2Model ----
(***************************************************************************)
(* Model of the request/response correlation layer of AIStudioToAPI:       *)
(* ConnectionRegistry (src/utils/connectionRegistry.js) and the            *)
(* MessageQueue objects it routes into.                                    *)
(***************************************************************************)
EXTENDS Integers, Sequences, FiniteSets, TLC

(***************************************************************************)
(* Bounds of the model.                                                    *)
(***************************************************************************)
MaxTimers == 2
MaxQueues == 2
\* queues constructed, and events accepted by all queues together, under SpecRouting
RoutingMaxQueues == 1
RoutingMaxEnqueued == 2
\* bounds of the queue-contract specification
QueueMaxWaiters == 2
QueueMaxEnqueued == 2
\* bounds of the request translation: messages per request body
MaxMessages == 2
\* bounds of the stream translation: parts and fragments fed per response
MaxParts == 2
MaxFragments == 2
\* bounds of the usage records: the largest token count, the detail entries per record
MaxTokens == 1
MaxDetails == 2

\* the largest session index, and the largest configured usage ceiling and
\* failure threshold
MaxAuthIndex == 2
MaxUses == 1
MaxFailures == 2

\* the websockets that connect to the registry
Sockets == {"ws1", "ws2"}
TimerIds == 1..MaxTimers
QueueIds == 1..MaxQueues

\* reconnectGraceTimer = null
NoTimer == 0

RequestIds == {"r1", "r2"}
\* the value of a property that is absent from a parsed object
Undefined == "undefined"
\* request_id values an inbound frame may carry ("" is a falsy string)
WireRequestIds == RequestIds \cup {"", Undefined}
KnownEventTypes == {"response_headers", "chunk", "error", "stream_close"}
WireEventTypes == KnownEventTypes \cup {"ping"}

(***************************************************************************)
(* Inbound frames.  A frame is the text received on the WebSocket, modelled *)
(* as a token sequence; JSONParse turns it into a value or fails.           *)
(***************************************************************************)
\* every event type and a second chunk payload for the first request id, a
\* chunk and a stream_close for the second, and frames whose request_id is
\* absent or the empty string
ObjectFrames ==
    { <<"{", "r1", et, "d1", "}">> : et \in WireEventTypes }
        \cup { <<"{", "r1", "chunk", "d2", "}">>,
               <<"{", "r2", "chunk", "d1", "}">>, <<"{", "r2", "stream_close", "d1", "}">> }
        \cup { <<"{", rid, "chunk", "d1", "}">> : rid \in {"", Undefined} }
\* a frame cut off before the closing brace, and a frame that is no JSON at all
BrokenFrames == { <<"{", "r1", "chunk", "d1">>, <<"garbage">> }
ScalarFrames == { <<"null">>, <<"42">> }
Frames == ObjectFrames \cup BrokenFrames \cup ScalarFrames
\* JSON.parse: [ok |-> FALSE] stands for a thrown SyntaxError
JSONParse(text) ==
    IF Len(text) = 5 /\ text[1] = "{" /\ text[5] = "}"
    THEN [ok |-> TRUE, kind |-> "object",
          value |-> [request_id |-> text[2], event_type |-> text[3], data |-> text[4]]]
    ELSE IF text = <<"null">>
    THEN [ok |-> TRUE, kind |-> "null",
          value |-> [request_id |-> Undefined, event_type |-> Undefined, data |-> Undefined]]
    ELSE IF text = <<"42">>
    THEN [ok |-> TRUE, kind |-> "number",
          value |-> [request_id |-> Undefined, event_type |-> Undefined, data |-> Undefined]]
    ELSE [ok |-> FALSE, kind |-> "none",
          value |-> [request_id |-> Undefined, event_type |-> Undefined, data |-> Undefined]]

\* JavaScript truthiness of a request_id read from a parsed message
Truthy(v) == v # Undefined /\ v # ""

(***************************************************************************)
(* MessageQueue (src/utils/messageQueue.js).                               *)
(* enqueued and delivered are history fields: everything accepted by       *)
(* enqueue, and everything handed to a dequeue call, in order.             *)
(***************************************************************************)
StreamEnd == [type |-> "STREAM_END"]

NewMessageQueue ==
    [born |-> TRUE, closed |-> FALSE, messages |-> <<>>, waiters |-> 0,
     enqueued |-> <<>>, delivered |-> <<>>]

Unborn ==
    [born |-> FALSE, closed |-> FALSE, messages |-> <<>>, waiters |-> 0,
     enqueued |-> <<>>, delivered |-> <<>>]

\* enqueue(event): no-op when closed; a pending dequeuer takes the event at once
enqueue(q, event) ==
    IF q.closed THEN q
    ELSE IF q.waiters > 0
    THEN [q EXCEPT !.waiters = @ - 1,
                   !.enqueued = Append(@, event),
                   !.delivered = Append(@, event)]
    ELSE [q EXCEPT !.messages = Append(@, event),
                   !.enqueued = Append(@, event)]

\* dequeue() that still hands out buffered events after close()
dequeueResultDrain(q) ==
    IF Len(q.messages) > 0 THEN "event"
    ELSE IF q.closed THEN "sentinel"
    ELSE "suspended"

\* dequeue(): the head of the buffer, or the sentinel when closed, or suspend
dequeueResult(q) ==
    IF q.closed THEN "sentinel"
    ELSE IF Len(q.messages) > 0 THEN "event"
    ELSE "suspended"

\* dequeue() taking the newest buffered event instead of the oldest
dequeueNewest(q) ==
    IF q.closed THEN q
    ELSE IF Len(q.messages) > 0
    THEN [q EXCEPT !.messages = SubSeq(@, 1, Len(@) - 1),
                   !.delivered = Append(@, q.messages[Len(q.messages)])]
    ELSE [q EXCEPT !.waiters = @ + 1]

dequeue(q) ==
    IF q.closed THEN q
    ELSE IF Len(q.messages) > 0
    THEN [q EXCEPT !.messages = Tail(@), !.delivered = Append(@, Head(q.messages))]
    ELSE [q EXCEPT !.waiters = @ + 1]

\* close() that wakes only one of the pending dequeuers
closeWakeOne(q) ==
    [q EXCEPT !.closed = TRUE, !.waiters = IF @ > 0 THEN @ - 1 ELSE 0]

\* close(): idempotent; every pending dequeuer is woken with the sentinel
close(q) == [q EXCEPT !.closed = TRUE, !.waiters = 0]

(***************************************************************************)
(* State.                                                                  *)
(***************************************************************************)
VARIABLES
    connections,          \* ConnectionRegistry.connections (Set of websockets)
    messageQueues,        \* ConnectionRegistry.messageQueues (Map id -> queue)
    reconnectGraceTimer,  \* ConnectionRegistry.reconnectGraceTimer (handle or null)
    timers,               \* the runtime's timers created by setTimeout
    queues,               \* the MessageQueue objects ever constructed
    last,                 \* the last operation, what it logged and emitted
    peerDuringGrace,      \* history: timers left pending by a peer's registration
    serverSystem,         \* FormatConverter.serverSystem (the server-wide force flags)
    openaiBody,           \* the OpenAI-dialect request body being translated
    googleRequest,        \* what translateOpenAIToGoogle returned for it
    streamUsage,          \* FormatConverter.streamUsage (usage cache, or null)
    streamState,          \* the caller's streamState object of the current response
    chunks,               \* what the last translateGoogleToOpenAIStream call returned
    response,             \* history of the current response: what was fed, what was sent
    googleResponse,       \* the non-streaming remote response being converted
    openaiResponse,       \* what convertGoogleToOpenAINonStream returned for it
    streams,              \* the responses translated side by side by one converter
    availableIndices,     \* authSource.availableIndices (the valid indices, in order)
    config,               \* switchOnUses, failureThreshold, immediateSwitchStatusCodes
    currentAuthIndex,     \* BrowserManager._currentAuthIndex (-1: none active)
    browser,              \* BrowserManager.browser is set
    usageCount,           \* requestHandler.usageCount
    failureCount,         \* requestHandler.failureCount
    isAuthSwitching,      \* a switch is under way
    pending,              \* the switches whose activation has not ended yet
    outcome,              \* the last step of the rotation and what it reported
    server,               \* "starting", "listening" or "exited"
    manager               \* BrowserManager's fields and its calls in flight

registryVars == <<connections, messageQueues, reconnectGraceTimer, timers, queues,
                  peerDuringGrace>>

nonStreamVars == <<googleResponse, openaiResponse>>

converterVars == <<serverSystem, openaiBody, googleRequest, streamUsage, streamState,
                   chunks, response, googleResponse, openaiResponse, streams>>

rotationVars == <<availableIndices, config, currentAuthIndex, browser, usageCount,
                  failureCount, isAuthSwitching, pending, outcome, server, manager>>

vars == <<connections, messageQueues, reconnectGraceTimer, timers, queues, last,
          peerDuringGrace, serverSystem, openaiBody, googleRequest, streamUsage,
          streamState, chunks, response, googleResponse, openaiResponse, streams,
          availableIndices, config, currentAuthIndex, browser, usageCount,
          failureCount, isAuthSwitching, pending, outcome, server, manager>>

Range(f) == { f[x] : x \in DOMAIN f }

EmptyMap == [x \in {} |-> 0]

\* Map.set / Map.delete
MapSet(m, k, v) == [x \in (DOMAIN m) \cup {k} |-> IF x = k THEN v ELSE m[x]]
MapDelete(m, k) == [x \in (DOMAIN m) \ {k} |-> m[x]]

Op(op, log, emit) == [op |-> op, log |-> log, emit |-> emit]

(***************************************************************************)
(* FormatConverter.translateOpenAIToGoogle: the request side.              *)
(* A JavaScript object with optional keys is a function whose domain holds *)
(* the keys that are defined; null is the record Null.                     *)
(***************************************************************************)
Null == [type |-> "null"]

\* message.role and message.content of the OpenAI dialect
Roles == {"system", "user", "assistant", "tool"}
StringContent(t) == [kind |-> "string", text |-> t]
ArrayContent(ps) == [kind |-> "array", parts |-> ps]
TextPart(t) == [type |-> "text", text |-> t]
Contents ==
    { StringContent("a"), StringContent("b"),
      ArrayContent(<<TextPart("a"), TextPart("b")>>) }
Messages == [role : Roles, content : Contents]

RECURSIVE SeqsUpTo(_, _)
SeqsUpTo(S, n) ==
    IF n = 0 THEN { <<>> }
    ELSE LET shorter == SeqsUpTo(S, n - 1)
         IN shorter \cup { Append(s, x) : s \in shorter, x \in S }

\* the places a thinking-config object is read from, in the order of the || chain
ThinkingLocations ==
    << "extra_body.google.thinking_config", "extra_body.google.thinkingConfig",
       "extra_body.thinkingConfig", "extra_body.thinking_config",
       "thinkingConfig", "thinking_config" >>
ThinkingLocationSet == { ThinkingLocations[i] : i \in DOMAIN ThinkingLocations }

\* thinking-config objects a client sends: the keys that are defined, with their values
ThinkingConfigs ==
    { [k \in {"include_thoughts"} |-> FALSE],
      [k \in {"includeThoughts"} |-> TRUE],
      [k \in {"include_thoughts", "includeThoughts"} |-> (k = "includeThoughts")],
      [k \in {} |-> TRUE] }

\* reasoning_effort as sent: absent, a level, or the empty string
Efforts == {Undefined, "high", ""}

\* the first truthy operand of the || chain, or undefined (as Null)
rawThinkingConfig(body) ==
    LET set == { i \in DOMAIN ThinkingLocations : ThinkingLocations[i] \in DOMAIN body.thinking }
    IN IF set = {} THEN Null
       ELSE body.thinking[ThinkingLocations[CHOOSE i \in set : \A j \in set : i <= j]]

\* the thinkingConfig built from an explicit object
extractThinking(raw) ==
    IF "include_thoughts" \in DOMAIN raw
    THEN [k \in {"includeThoughts"} |-> raw["include_thoughts"]]
    ELSE IF "includeThoughts" \in DOMAIN raw
    THEN [k \in {"includeThoughts"} |-> raw["includeThoughts"]]
    ELSE [k \in {} |-> TRUE]

IncludeThoughts == [k \in {"includeThoughts"} |-> TRUE]

effortOf(body) ==
    IF Truthy(body.reasoning_effort) THEN body.reasoning_effort
    ELSE body.extra_reasoning_effort

\* which of the three sources decided the thinking configuration
thinkingSource(body, sys) ==
    IF rawThinkingConfig(body) # Null THEN "explicit"
    ELSE IF Truthy(effortOf(body)) THEN "effort"
    ELSE IF sys.forceThinking THEN "force"
    ELSE "none"

\* forceThinking overriding whatever the client sent
resolveThinkingForceFirst(body, sys) ==
    IF sys.forceThinking THEN IncludeThoughts
    ELSE IF rawThinkingConfig(body) # Null THEN extractThinking(rawThinkingConfig(body))
    ELSE IF Truthy(effortOf(body)) THEN IncludeThoughts
    ELSE Null

\* thinkingConfig as lines 121-164 leave it (Null when none is sent)
resolveThinking(body, sys) ==
    LET explicit == IF rawThinkingConfig(body) # Null
                    THEN extractThinking(rawThinkingConfig(body)) ELSE Null
        afterEffort == IF explicit = Null /\ Truthy(effortOf(body))
                       THEN IncludeThoughts ELSE explicit
    IN IF sys.forceThinking /\ afterEffort = Null THEN IncludeThoughts ELSE afterEffort

\* googleRequest.tools: absent, or an array of tool descriptors
NoTools == [present |-> FALSE, list |-> <<>>]
Has(list, tool) == \E i \in DOMAIN list : list[i] = tool

\* the injection pushing the descriptors without looking at the array
forceToolsBlind(tools, sys) ==
    IF sys.forceWebSearch \/ sys.forceUrlContext
    THEN [present |-> TRUE,
          list |-> tools.list
                   \o (IF sys.forceWebSearch THEN <<"googleSearch">> ELSE <<>>)
                   \o (IF sys.forceUrlContext THEN <<"urlContext">> ELSE <<>>)]
    ELSE tools

\* the force-web-search / force-url-context block applied to a tools array
forceTools(tools, sys) ==
    IF sys.forceWebSearch \/ sys.forceUrlContext
    THEN LET withSearch ==
                 IF sys.forceWebSearch /\ ~Has(tools.list, "googleSearch")
                 THEN Append(tools.list, "googleSearch") ELSE tools.list
             withUrl ==
                 IF sys.forceUrlContext /\ ~Has(withSearch, "urlContext")
                 THEN Append(withSearch, "urlContext") ELSE withSearch
         IN [present |-> TRUE, list |-> withUrl]
    ELSE tools

IsSystem(msg) == msg.role = "system"
IsConversation(msg) == msg.role # "system"

\* the Google parts of one message's content
googleParts(content) ==
    IF content.kind = "string" THEN << [text |-> content.text] >>
    ELSE [i \in DOMAIN content.parts |-> [text |-> content.parts[i].text]]

\* every non-system message mapped to role user
googleContentAllUser(message) ==
    [parts |-> googleParts(message.content), role |-> "user"]

\* one entry of googleContents
googleContent(message) ==
    [parts |-> googleParts(message.content),
     role |-> IF message.role = "assistant" THEN "model" ELSE "user"]

SafetySettings ==
    << [category |-> "HARM_CATEGORY_HARASSMENT", threshold |-> "BLOCK_NONE"],
       [category |-> "HARM_CATEGORY_HATE_SPEECH", threshold |-> "BLOCK_NONE"],
       [category |-> "HARM_CATEGORY_SEXUALLY_EXPLICIT", threshold |-> "BLOCK_NONE"],
       [category |-> "HARM_CATEGORY_DANGEROUS_CONTENT", threshold |-> "BLOCK_NONE"] >>

\* the request translateOpenAIToGoogle returns
translateRequest(body, sys) ==
    LET systemMessages == SelectSeq(body.messages, IsSystem)
        conversationMessages == SelectSeq(body.messages, IsConversation)
        thinkingConfig == resolveThinking(body, sys)
    IN [contents |-> [i \in DOMAIN conversationMessages |->
                         googleContent(conversationMessages[i])],
        systemInstruction |->
            IF Len(systemMessages) > 0
            THEN [joined |-> [i \in DOMAIN systemMessages |-> systemMessages[i].content],
                  separator |-> "\n"]
            ELSE Null,
        generationConfig |->
            [maxOutputTokens |-> body.max_tokens, stopSequences |-> body.stop,
             temperature |-> body.temperature, topK |-> body.top_k, topP |-> body.top_p,
             thinkingConfig |-> thinkingConfig],
        tools |-> forceTools(NoTools, sys),
        safetySettings |-> SafetySettings]

\* a request body with the generation parameters left out
Body(messages, thinking, effort, extraEffort) ==
    [messages |-> messages, thinking |-> thinking,
     reasoning_effort |-> effort, extra_reasoning_effort |-> extraEffort,
     max_tokens |-> Undefined, stop |-> Undefined, temperature |-> Undefined,
     top_k |-> Undefined, top_p |-> Undefined]

NoThinking == [k \in {} |-> Null]
OneUserMessage == << [role |-> "user", content |-> StringContent("a")] >>

\* bodies that vary the messages
MessageBodies ==
    { Body(ms, NoThinking, Undefined, Undefined) : ms \in SeqsUpTo(Messages, MaxMessages) }

\* bodies that vary the thinking settings: up to two places carry an object
ThinkingMaps ==
    UNION { [D -> ThinkingConfigs] :
              D \in { X \in SUBSET ThinkingLocationSet : Cardinality(X) <= 2 } }
ThinkingBodies ==
    { Body(OneUserMessage, t, e, x) :
        t \in ThinkingMaps, e \in Efforts, x \in {Undefined, "low"} }

OpenAIBodies == MessageBodies \cup ThinkingBodies

ServerSystems ==
    [forceThinking : BOOLEAN, forceWebSearch : BOOLEAN, forceUrlContext : BOOLEAN]

(***************************************************************************)
(* FormatConverter.translateGoogleToOpenAIStream: the streaming side.      *)
(* A JavaScript string built by concatenation is the sequence of its       *)
(* pieces; a string-valued field that may be null holds "null" then.       *)
(***************************************************************************)
NullString == "null"

\* parts of a candidate's content
TextA == [text |-> "a"]
ThoughtT == [thought |-> TRUE, text |-> "t"]
ImagePart == [inlineData |-> [mimeType |-> "image/png", data |-> "iVBOR"]]
EmptyText == [text |-> ""]
Parts == {TextA, ThoughtT, ImagePart, EmptyText}

\* usageMetadata objects of the remote dialect: the counts that are defined
UsageSmall == [promptTokenCount |-> 3, candidatesTokenCount |-> 2, totalTokenCount |-> 5]
UsageFull ==
    [promptTokenCount |-> 3, toolUsePromptTokenCount |-> 1, candidatesTokenCount |-> 2,
     thoughtsTokenCount |-> 1,
     candidatesTokensDetails |-> << [modality |-> "IMAGE", tokenCount |-> 4],
                                    [modality |-> "TEXT", tokenCount |-> 2] >>,
     totalTokenCount |-> 11]
UsageMetadatas == {UsageSmall, UsageFull}

\* usage.<key> || 0
Count(usage, key) == IF key \in DOMAIN usage THEN usage[key] ELSE 0

RECURSIVE imageTokens(_)
imageTokens(details) ==
    IF details = <<>> THEN 0
    ELSE (IF "modality" \in DOMAIN Head(details) /\ Head(details)["modality"] = "IMAGE"
          THEN Count(Head(details), "tokenCount") ELSE 0)
         + imageTokens(Tail(details))

\* _parseUsage with the image tokens added into completion_tokens
parseUsageAddingImages(usage) ==
    LET details == IF "candidatesTokensDetails" \in DOMAIN usage
                   THEN usage["candidatesTokensDetails"] ELSE <<>>
    IN [completion_tokens |->
            Count(usage, "candidatesTokenCount") + Count(usage, "thoughtsTokenCount")
            + imageTokens(details),
        completion_tokens_details |->
            [image_tokens |-> imageTokens(details),
             output_text_tokens |-> Count(usage, "candidatesTokenCount"),
             reasoning_tokens |-> Count(usage, "thoughtsTokenCount")],
        prompt_tokens |->
            Count(usage, "promptTokenCount") + Count(usage, "toolUsePromptTokenCount"),
        prompt_tokens_details |->
            [text_tokens |-> Count(usage, "promptTokenCount"),
             tool_tokens |-> Count(usage, "toolUsePromptTokenCount")],
        total_tokens |-> Count(usage, "totalTokenCount")]

\* _parseUsage applied to a response whose usageMetadata is usage
parseUsage(usage) ==
    LET details == IF "candidatesTokensDetails" \in DOMAIN usage
                   THEN usage["candidatesTokensDetails"] ELSE <<>>
    IN [completion_tokens |->
            Count(usage, "candidatesTokenCount") + Count(usage, "thoughtsTokenCount"),
        completion_tokens_details |->
            [image_tokens |-> imageTokens(details),
             output_text_tokens |-> Count(usage, "candidatesTokenCount"),
             reasoning_tokens |-> Count(usage, "thoughtsTokenCount")],
        prompt_tokens |->
            Count(usage, "promptTokenCount") + Count(usage, "toolUsePromptTokenCount"),
        prompt_tokens_details |->
            [text_tokens |-> Count(usage, "promptTokenCount"),
             tool_tokens |-> Count(usage, "toolUsePromptTokenCount")],
        total_tokens |-> Count(usage, "totalTokenCount")]

\* a JSON object with the given keys defined
Object(keys, fields) == [k \in keys |-> fields[k]]

Candidate(parts, finishReason) ==
    Object({"content"} \cup (IF finishReason = Undefined THEN {} ELSE {"finishReason"}),
           [content |-> [parts |-> parts], finishReason |-> finishReason])

PromptFeedback == [blockReason |-> "SAFETY"]

\* googleChunk as received: an optional "data: " prefix and the text after it
Chunk(prefix, text, json) == [prefix |-> prefix, text |-> text, json |-> json]

\* fragments whose text is a JSON object with a candidate
CandidateFragments ==
    { Chunk(TRUE, "json",
            Object({"candidates"} \cup (IF u = Null THEN {} ELSE {"usageMetadata"}),
                   [candidates |-> << Candidate(ps, f) >>, usageMetadata |-> u,
                    promptFeedback |-> Null])) :
        u \in {UsageFull, Null},
        ps \in SeqsUpTo(Parts, MaxParts),
        f \in {Undefined, "STOP"} }

\* fragments whose text is a JSON object without a candidate
NoCandidateFragments ==
    { Chunk(TRUE, "json",
            Object((IF u = Null THEN {} ELSE {"usageMetadata"})
                   \cup (IF c THEN {"candidates"} ELSE {})
                   \cup (IF p THEN {"promptFeedback"} ELSE {}),
                   [candidates |-> <<>>, usageMetadata |-> u,
                    promptFeedback |-> PromptFeedback])) :
        u \in UsageMetadatas \cup {Null}, c \in BOOLEAN, p \in BOOLEAN }

\* fragments that are no JSON object
OtherFragments ==
    { Chunk(FALSE, "", Null), Chunk(FALSE, " ", Null), Chunk(TRUE, "", Null),
      Chunk(FALSE, "[DONE]", Null), Chunk(TRUE, "[DONE]", Null),
      Chunk(TRUE, "{garbage", Null), Chunk(TRUE, "null", Null) }

StreamFragments == CandidateFragments \cup NoCandidateFragments \cup OtherFragments

\* googleResponse.candidates?.[0], or Null
candidateOf(json) ==
    IF "candidates" \in DOMAIN json /\ Len(json["candidates"]) > 0
    THEN json["candidates"][1] ELSE Null

\* candidate.content.parts when it is an array, else nothing to iterate
partsOf(googleChunk) ==
    IF googleChunk.text = "json" /\ candidateOf(googleChunk.json) # Null
       /\ "content" \in DOMAIN candidateOf(googleChunk.json)
    THEN candidateOf(googleChunk.json)["content"].parts
    ELSE <<>>

\* the caller's streamState object when a response begins
NewStreamState == [k \in {} |-> TRUE]

\* Date.now() and Math.random() as read by the n-th call for a response
Stamps == [n \in 1..MaxFragments |-> [id |-> <<"chatcmpl-", n>>, created |-> n]]

\* what the call returns: null, the [DONE] marker, the joined chunks, or a throw
Return(kind, list) == [kind |-> kind, list |-> list]

ErrorText(blockReason) ==
    << "[ProxySystem Error] Request blocked due to safety settings. Finish Reason: ",
       blockReason >>
ImageMarkdown(image) ==
    << "![Generated Image](data:", image.mimeType, ";base64,", image.data, ")" >>

\* the delta of one part; no key at all when the part has no content
deltaOf(part) ==
    IF "thought" \in DOMAIN part /\ part["thought"] = TRUE
    THEN IF "text" \in DOMAIN part /\ part["text"] # ""
         THEN [k \in {"reasoning_content"} |-> << part["text"] >>]
         ELSE EmptyMap
    ELSE IF "text" \in DOMAIN part /\ part["text"] # ""
    THEN [k \in {"content"} |-> << part["text"] >>]
    ELSE IF "inlineData" \in DOMAIN part
    THEN [k \in {"content"} |-> ImageMarkdown(part["inlineData"])]
    ELSE EmptyMap

RECURSIVE partsLoop(_, _, _)
\* the loop over the parts attaching the role to every chunk
partsLoopRoleAlways(parts, state, sent) ==
    [state |-> MapSet(state, "roleSent", TRUE),
     sent |-> sent \o
        [i \in 1..Len(SelectSeq(parts, LAMBDA p : deltaOf(p) # EmptyMap)) |->
            [delta |-> MapSet(deltaOf(SelectSeq(parts, LAMBDA p : deltaOf(p) # EmptyMap)[i]),
                              "role", "assistant"),
             finish_reason |-> NullString, id |-> state["id"], created |-> state["created"]]]]

\* the loop over candidate.content.parts: one chunk per part that has content
partsLoop(parts, state, sent) ==
    IF parts = <<>> THEN [state |-> state, sent |-> sent]
    ELSE LET part == Head(parts)
             delta == deltaOf(part)
             thought == "reasoning_content" \in DOMAIN delta
             state1 == IF thought THEN MapSet(state, "inThought", TRUE) ELSE state
             first == "roleSent" \notin DOMAIN state1
             state2 == IF first THEN MapSet(state1, "roleSent", TRUE) ELSE state1
         IN IF delta = EmptyMap THEN partsLoop(Tail(parts), state, sent)
            ELSE partsLoop(Tail(parts), state2,
                     Append(sent,
                        [delta |-> IF first THEN MapSet(delta, "role", "assistant") ELSE delta,
                         finish_reason |-> NullString,
                         id |-> state["id"], created |-> state["created"]]))

\* the safety-block chunk without a finish reason
blockedChunkNoFinish(json, state) ==
    [delta |-> [k \in {"content"} |-> ErrorText(json["promptFeedback"].blockReason)],
     finish_reason |-> NullString, id |-> state["id"], created |-> state["created"]]

\* the safety-block chunk
blockedChunk(json, state) ==
    [delta |-> [k \in {"content"} |-> ErrorText(json["promptFeedback"].blockReason)],
     finish_reason |-> "stop", id |-> state["id"], created |-> state["created"]]

\* the final chunk always sent without usage
finalChunkNoUsage(candidate, state, usage) ==
    [delta |-> EmptyMap, finish_reason |-> candidate["finishReason"],
     id |-> state["id"], created |-> state["created"], usage |-> Null]

\* the final chunk with finish_reason and the cached usage
finalChunk(candidate, state, usage) ==
    [delta |-> EmptyMap, finish_reason |-> candidate["finishReason"],
     id |-> state["id"], created |-> state["created"], usage |-> usage]

\* the result of a call: return value, usage cache and stream state afterwards
Result(ret, usage, state) == [return |-> ret, streamUsage |-> usage, streamState |-> state]

\* the cache keeping the first usage record instead of the latest
cacheUsageKeepFirst(json, usage) ==
    IF usage # Null THEN usage
    ELSE IF "usageMetadata" \in DOMAIN json THEN parseUsage(json["usageMetadata"])
    ELSE usage

\* this.streamUsage after "cache usage data whenever it arrives"
cacheUsage(json, usage) ==
    IF "usageMetadata" \in DOMAIN json THEN parseUsage(json["usageMetadata"]) ELSE usage

\* the body assigning a response id and timestamp at every fragment
translateParsedRestamped(json, usage, state, stamp) ==
    LET state1 == MapSet(MapSet(state, "id", stamp.id), "created", stamp.created)
        usage1 == cacheUsage(json, usage)
        candidate == candidateOf(json)
    IN IF candidate = Null
       THEN IF "promptFeedback" \in DOMAIN json
            THEN Result(Return("chunks", << blockedChunk(json, state1) >>), usage1, state1)
            ELSE Result(Return("null", <<>>), usage1, state1)
       ELSE LET loop == partsLoop(IF "content" \in DOMAIN candidate
                                  THEN candidate["content"].parts ELSE <<>>,
                                  state1, <<>>)
                finish == "finishReason" \in DOMAIN candidate
                chunksToSend ==
                    IF finish
                    THEN Append(loop.sent, finalChunk(candidate, state1, usage1))
                    ELSE loop.sent
            IN Result(IF Len(chunksToSend) > 0 THEN Return("chunks", chunksToSend)
                      ELSE Return("null", <<>>),
                      IF finish THEN Null ELSE usage1,
                      loop.state)

\* the body of translateGoogleToOpenAIStream after JSON.parse succeeded with an object
translateParsed(json, usage, state, stamp) ==
    LET state1 == IF "id" \notin DOMAIN state
                  THEN MapSet(MapSet(state, "id", stamp.id), "created", stamp.created)
                  ELSE state
        usage1 == cacheUsage(json, usage)
        candidate == candidateOf(json)
    IN IF candidate = Null
       THEN IF "promptFeedback" \in DOMAIN json
            THEN Result(Return("chunks", << blockedChunk(json, state1) >>), usage1, state1)
            ELSE Result(Return("null", <<>>), usage1, state1)
       ELSE LET loop == partsLoop(IF "content" \in DOMAIN candidate
                                  THEN candidate["content"].parts ELSE <<>>,
                                  state1, <<>>)
                finish == "finishReason" \in DOMAIN candidate
                chunksToSend ==
                    IF finish
                    THEN Append(loop.sent, finalChunk(candidate, state1, usage1))
                    ELSE loop.sent
            IN Result(IF Len(chunksToSend) > 0 THEN Return("chunks", chunksToSend)
                      ELSE Return("null", <<>>),
                      IF finish THEN Null ELSE usage1,
                      loop.state)

\* translateGoogleToOpenAIStream dropping its state on a JSON.parse failure
translateStreamForgetful(googleChunk, usage, state, stamp) ==
    LET jsonString == IF googleChunk.prefix /\ googleChunk.text = " " THEN ""
                      ELSE googleChunk.text
        state1 == IF "id" \notin DOMAIN state
                  THEN MapSet(MapSet(state, "id", stamp.id), "created", stamp.created)
                  ELSE state
    IN IF ~googleChunk.prefix /\ googleChunk.text \in {"", " "}
       THEN Result(Return("null", <<>>), usage, state)
       ELSE IF jsonString = "[DONE]"
       THEN Result(Return("done", <<>>), usage, state)
       ELSE IF jsonString = "json"
       THEN translateParsed(googleChunk.json, usage, state, stamp)
       ELSE IF jsonString = "null"
       THEN Result(Return("TypeError", <<>>), usage, state1)
       ELSE Result(Return("null", <<>>), Null, NewStreamState)

\* translateGoogleToOpenAIStream(googleChunk, modelName, streamState)
translateStream(googleChunk, usage, state, stamp) ==
    LET jsonString == IF googleChunk.prefix /\ googleChunk.text = " " THEN ""
                      ELSE googleChunk.text
        state1 == IF "id" \notin DOMAIN state
                  THEN MapSet(MapSet(state, "id", stamp.id), "created", stamp.created)
                  ELSE state
    IN IF ~googleChunk.prefix /\ googleChunk.text \in {"", " "}
       THEN Result(Return("null", <<>>), usage, state)
       ELSE IF jsonString = "[DONE]"
       THEN Result(Return("done", <<>>), usage, state)
       ELSE IF jsonString = "json"
       THEN translateParsed(googleChunk.json, usage, state, stamp)
       ELSE IF jsonString = "null"
       THEN Result(Return("TypeError", <<>>), usage, state1)
       ELSE Result(Return("null", <<>>), usage, state)

(***************************************************************************)
(* FormatConverter.convertGoogleToOpenAINonStream: the non-streaming side. *)
(***************************************************************************)
TextHello == [text |-> "hello"]
NonStreamParts == {TextHello, ThoughtT, ImagePart, EmptyText}

\* the usage of the example: { promptTokenCount: 3, candidatesTokenCount: 2 }
UsageHello == [promptTokenCount |-> 3, candidatesTokenCount |-> 2]

\* usageMetadata objects: each count absent or a number, details absent or an array
CountKeys ==
    {"promptTokenCount", "toolUsePromptTokenCount", "candidatesTokenCount",
     "thoughtsTokenCount"}
CountMaps == UNION { [D -> 0..MaxTokens] : D \in SUBSET CountKeys }
DetailEntries ==
    { [modality |-> "IMAGE", tokenCount |-> t] : t \in 1..MaxTokens }
    \cup { [modality |-> "TEXT", tokenCount |-> 1], [modality |-> "IMAGE"] }
UsageRecord(counts, hasTotal, hasDetails, details) ==
    [k \in DOMAIN counts
           \cup (IF hasTotal THEN {"totalTokenCount"} ELSE {})
           \cup (IF hasDetails THEN {"candidatesTokensDetails"} ELSE {}) |->
        IF k \in DOMAIN counts THEN counts[k]
        ELSE IF k = "totalTokenCount" THEN MaxTokens
        ELSE details]
UsageRecords ==
    { UsageRecord(c, t, TRUE, d) :
        c \in CountMaps, t \in BOOLEAN, d \in SeqsUpTo(DetailEntries, MaxDetails) }
    \cup { UsageRecord(c, t, FALSE, <<>>) : c \in CountMaps, t \in BOOLEAN }
    \cup { UsageHello }

\* a non-streaming remote response with the given keys
NonStreamResponse(hasCandidates, candidates, hasUsage, usage) ==
    Object((IF hasCandidates THEN {"candidates"} ELSE {})
           \cup (IF hasUsage THEN {"usageMetadata"} ELSE {}),
           [candidates |-> candidates, usageMetadata |-> usage])

\* responses that vary the usage metadata
UsageResponses ==
    { NonStreamResponse(TRUE, << Candidate(<<TextHello>>, "STOP") >>, TRUE, u) :
        u \in UsageRecords }
    \cup { NonStreamResponse(TRUE, << Candidate(<<TextHello>>, "STOP") >>, FALSE, UsageHello) }

\* responses that vary the candidate
CandidateResponses ==
    { NonStreamResponse(TRUE, << Candidate(ps, f) >>, TRUE, UsageHello) :
        ps \in SeqsUpTo(NonStreamParts, MaxParts), f \in {Undefined, "STOP", "MAX_TOKENS"} }
    \cup { NonStreamResponse(c, <<>>, TRUE, UsageHello) : c \in BOOLEAN }

NonStreamResponses == UsageResponses \cup CandidateResponses

\* content and reasoning_content as the loop over the parts concatenates them
RECURSIVE concatParts(_, _, _)
concatParts(parts, content, reasoning) ==
    IF parts = <<>> THEN [content |-> content, reasoning_content |-> reasoning]
    ELSE LET part == Head(parts)
             text == IF "text" \in DOMAIN part /\ part["text"] # ""
                     THEN << part["text"] >> ELSE <<>>
         IN IF "thought" \in DOMAIN part /\ part["thought"] = TRUE
            THEN concatParts(Tail(parts), content, reasoning \o text)
            ELSE IF text # <<>>
            THEN concatParts(Tail(parts), content \o text, reasoning)
            ELSE IF "inlineData" \in DOMAIN part
            THEN concatParts(Tail(parts),
                             content \o ImageMarkdown(part["inlineData"]), reasoning)
            ELSE concatParts(Tail(parts), content, reasoning)

\* candidate.finishReason || "stop"
finishReasonOf(candidate) ==
    IF "finishReason" \in DOMAIN candidate THEN candidate["finishReason"] ELSE "stop"

\* what convertGoogleToOpenAINonStream returns
convertNonStream(resp, stamp) ==
    LET candidate == candidateOf(resp)
    IN IF candidate = Null
       THEN [choices |-> << [finish_reason |-> "stop", index |-> 0,
                             message |-> [content |-> <<>>, role |-> "assistant"]] >>,
             created |-> stamp.created, id |-> stamp.id, object |-> "chat.completion",
             usage |-> [completion_tokens |-> 0, prompt_tokens |-> 0, total_tokens |-> 0]]
       ELSE LET text == concatParts(IF "content" \in DOMAIN candidate
                                    THEN candidate["content"].parts ELSE <<>>,
                                    <<>>, <<>>)
                message == IF text.reasoning_content # <<>>
                           THEN [content |-> text.content, role |-> "assistant",
                                 reasoning_content |-> text.reasoning_content]
                           ELSE [content |-> text.content, role |-> "assistant"]
            IN [choices |-> << [finish_reason |-> finishReasonOf(candidate), index |-> 0,
                                message |-> message] >>,
                created |-> stamp.created, id |-> stamp.id, object |-> "chat.completion",
                usage |-> parseUsage(IF "usageMetadata" \in DOMAIN resp
                                     THEN resp["usageMetadata"] ELSE EmptyMap)]

\* the responses one converter translates side by side
StreamNames == {"A", "B"}

\* a response of the converter: its caller's stream state, the usage
\* metadata its fragments carried, and the usage its terminal chunk carried
IdleStream ==
    [active |-> FALSE, finished |-> FALSE, state |-> NewStreamState, fed |-> 0,
     own |-> <<>>, attached |-> Null]

NoStreams == [r \in StreamNames |-> IdleStream]

\* the fragments of the responses translated side by side: one text part,
\* with or without usage metadata, with or without a finish reason
InterleavedFragments ==
    { Chunk(TRUE, "json",
            Object({"candidates"} \cup (IF u = Null THEN {} ELSE {"usageMetadata"}),
                   [candidates |-> << Candidate(<<TextA>>, f) >>, usageMetadata |-> u,
                    promptFeedback |-> Null])) :
        u \in {UsageSmall, UsageFull, Null}, f \in {Undefined, "STOP"} }

\* the response history before any response has begun
NoResponse ==
    [active |-> FALSE, inherited |-> FALSE, fragment |-> Null, fragments |-> 0,
     parts |-> 0, fed |-> <<>>, sent |-> <<>>, usages |-> <<>>, finishes |-> 0,
     blocked |-> 0]

(***************************************************************************)
(* Session rotation: the data.                                             *)
(***************************************************************************)
\* the session indices auth files may carry
AuthIndices == 0..MaxAuthIndex

\* authSource.availableIndices of a set of valid indices: ascending order
RECURSIVE Ascending(_)
Ascending(S) ==
    IF S = {} THEN <<>>
    ELSE LET least == CHOOSE x \in S : \A y \in S : x <= y
         IN <<least>> \o Ascending(S \ {least})

AvailableLists == { Ascending(S) : S \in SUBSET AuthIndices }

\* the status codes a failed request may carry
StatusCodes == {429, 500}

\* config.switchOnUses, config.failureThreshold (0: not configured) and
\* config.immediateSwitchStatusCodes
Config(switchOnUses, failureThreshold, immediateSwitchStatusCodes) ==
    [switchOnUses |-> switchOnUses, failureThreshold |-> failureThreshold,
     immediateSwitchStatusCodes |-> immediateSwitchStatusCodes]

\* the configurations: every two of the three settings occur both
\* configured and not configured, in every combination
Configs ==
    {Config(0, 0, {}), Config(MaxUses, 0, {429}),
     Config(0, MaxFailures, {429}), Config(MaxUses, MaxFailures, {})}

\* Array.prototype.includes
includes(list, x) == \E k \in DOMAIN list : list[k] = x

\* Array.prototype.indexOf, counted from 0
indexOf(list, x) ==
    IF includes(list, x) THEN (CHOOSE k \in DOMAIN list : list[k] = x) - 1 ELSE -1

\* the next valid index after the current one, the order taken one step further
getNextAuthIndexUnwrapped(available, current) ==
    LET position == indexOf(available, current)
    IN IF position + 2 \in DOMAIN available THEN available[position + 2] ELSE current + 1

\* the next valid index in cyclic order after the current one; the first one
\* when the current index is not in the list
getNextAuthIndex(available, current) ==
    LET position == indexOf(available, current)
    IN available[((position + 1) % Len(available)) + 1]

\* authSource.getAuth answering for every index
getAuthAny(available, authIndex) == [index |-> authIndex]

\* authSource.getAuth(authIndex): the stored session of a valid index, or null
getAuth(available, authIndex) ==
    IF includes(available, authIndex) THEN [index |-> authIndex] ELSE Null

\* INITIAL_AUTH_INDEX as parseInt reads it: NaN, or a number
ParsedIndices ==
    {[nan |-> TRUE, value |-> 0]} \cup [nan : {FALSE}, value : (-1)..MaxAuthIndex]

\* parseInt(process.env.INITIAL_AUTH_INDEX, 10) || 1
initialAuthIndex(parsed) == IF parsed.nan \/ parsed.value = 0 THEN 1 ELSE parsed.value

\* what a switch operation reports
Success(newIndex) == [success |-> TRUE, newIndex |-> newIndex]
Fallback(newIndex) == [success |-> FALSE, fallback |-> TRUE, newIndex |-> newIndex]
Failure(reason) == [success |-> FALSE, reason |-> reason]

\* res.status(status).send(text), the text with the account or the reason it names
Send(status, text, newIndex, reason) ==
    [status |-> status, text |-> text, newIndex |-> newIndex, reason |-> reason]

\* the switch a step began or finished
Switch(op, origin, previous, target, phase) ==
    [op |-> op, origin |-> origin, previous |-> previous, target |-> target,
     phase |-> phase]

\* a step of the rotation: the manager operations it called, the activations
\* it asked of the driver, the switch it concerned, what that switch reported
\* and what the route sent; input holds the status code of recordFailure
Step(step, calls, driver, switch, result, res) ==
    [step |-> step, input |-> <<>>, calls |-> calls, driver |-> driver,
     switch |-> switch, result |-> result, res |-> res]

\* launchOrSwitchContext(authIndex) as it ends: thrown or not, and the
\* driver's fields as it leaves them
Ended(threw, index, running) ==
    [threw |-> threw, currentAuthIndex |-> index, browser |-> running]

\* launchOrSwitchContext rejecting authIndex before its first await
launchRejects(authIndex) == authIndex < 0

\* the ways launchOrSwitchContext(authIndex) can end once it is under way
launchOrSwitchContext(authIndex, available, current, running) ==
    (IF running THEN {} ELSE {Ended(TRUE, -1, FALSE)})
    \cup (IF getAuth(available, authIndex) = Null
          THEN {Ended(TRUE, current, TRUE)}
          ELSE {Ended(FALSE, authIndex, TRUE), Ended(TRUE, -1, FALSE)})

(***************************************************************************)
(* BrowserManager at the grain of its awaits.  A call of one of its async  *)
(* methods runs from one await to the next without interruption; between   *)
(* two awaits other calls and the browser's "disconnected" event may run.  *)
(* page is "null", "open" or "closed" (a page object whose isClosed() is   *)
(* true); browser and context tell whether the field holds an object.      *)
(***************************************************************************)
\* the most calls of the driver's methods made in one run
MaxCalls == 2

\* the auth source of the driver runs: every index but the last has auth data
ManagerAccounts == Ascending(AuthIndices \ {MaxAuthIndex})

\* the arguments of launchOrSwitchContext: an invalid index, an index with
\* auth data and an index without
LaunchIndices == {-1, 0, MaxAuthIndex}

\* a call in flight: the method, its argument, the await it is suspended at
Call(op, authIndex, pc) == [op |-> op, authIndex |-> authIndex, pc |-> pc]

\* what the last step did: the method, its argument, the point it resumed
\* from and the await it reached or the way it ended
Did(op, authIndex, from, to) == [op |-> op, authIndex |-> authIndex, from |-> from, to |-> to]

\* the ways a call ends
Ends == {"returned", "threw", "true", "false"}

\* the driver's fields after a run of code, and where the run stopped
Out(m, pc) == [m |-> m, pc |-> pc]

\* the constructor's fields
NewManager ==
    [browser |-> FALSE, context |-> FALSE, page |-> "null", currentAuthIndex |-> -1,
     isClosingIntentionally |-> FALSE, calls |-> <<>>, started |-> 0,
     last |-> Did("constructor", -1, "entry", "returned")]

\* "reset all references" of closeBrowser and of the "disconnected" handler
resetReferences(m) ==
    [m EXCEPT !.browser = FALSE, !.context = FALSE, !.page = "null",
              !.currentAuthIndex = -1]

\* closeBrowser up to its await of browser.close(): the flag is raised; with
\* no browser the flag is lowered again and the call is over
closeBrowserEntry(m) ==
    IF m.browser
    THEN Out([m EXCEPT !.isClosingIntentionally = TRUE,
                       !.page = IF @ = "open" THEN "closed" ELSE @], "close")
    ELSE Out([m EXCEPT !.isClosingIntentionally = FALSE], "returned")

\* closeBrowser after browser.close() or its 5 s timeout
closeBrowserResume(m) ==
    Out([resetReferences(m) EXCEPT !.isClosingIntentionally = FALSE], "returned")

\* launchOrSwitchContext from getAuth to browser.newContext
launchAuth(m, authIndex) ==
    IF getAuth(ManagerAccounts, authIndex) = Null
    THEN Out(m, "threw")
    ELSE Out(m, "newContext")

\* launchOrSwitchContext from "if (this.context)" on
launchContext(m, authIndex) ==
    IF m.context
    THEN Out([m EXCEPT !.page = IF @ = "open" THEN "closed" ELSE @], "contextClose")
    ELSE launchAuth(m, authIndex)

\* launchOrSwitchContext from "if (!this.browser)" on; executable tells
\* whether fs.existsSync(browserExecutablePath)
launchBrowser(m, authIndex, executable) ==
    IF ~m.browser
    THEN IF ~executable
         THEN Out([m EXCEPT !.currentAuthIndex = -1], "threw")
         ELSE Out(m, "launch")
    ELSE launchContext(m, authIndex)

\* launchOrSwitchContext up to its first await
launchEntry(m, authIndex, executable) ==
    IF authIndex < 0
    THEN Out([m EXCEPT !.currentAuthIndex = -1], "threw")
    ELSE IF m.browser /\ m.currentAuthIndex >= 0
    THEN Out(m, "updateAuthFile")
    ELSE launchBrowser(m, authIndex, executable)

\* launchOrSwitchContext resumed at the await pc; ok tells whether the awaited
\* promise fulfilled.  The awaits of the try block are newContext, newPage
\* (with addInitScript) and inject (navigation, checks, popups, injection);
\* the catch block awaits _saveDebugArtifacts, then closeBrowser ("close"
\* while that call awaits browser.close(), "closed" once it has resolved)
launchResume(m, authIndex, pc, ok, executable) ==
    IF pc = "updateAuthFile" THEN launchBrowser(m, authIndex, executable)
    ELSE IF pc = "launch"
    THEN IF ok THEN launchContext([m EXCEPT !.browser = TRUE], authIndex)
         ELSE Out(m, "threw")
    ELSE IF pc = "contextClose"
    THEN launchAuth([m EXCEPT !.context = FALSE, !.page = "null"], authIndex)
    ELSE IF pc = "newContext"
    THEN IF ok THEN Out([m EXCEPT !.context = TRUE], "newPage")
         ELSE Out(m, "saveDebugArtifacts")
    ELSE IF pc = "newPage"
    THEN IF ok THEN Out([m EXCEPT !.page = "open"], "inject")
         ELSE Out(m, "saveDebugArtifacts")
    ELSE IF pc = "inject"
    THEN IF ok THEN Out([m EXCEPT !.currentAuthIndex = authIndex], "finalUpdate")
         ELSE Out(m, "saveDebugArtifacts")
    ELSE IF pc = "finalUpdate" THEN Out(m, "returned")
    ELSE IF pc = "saveDebugArtifacts"
    THEN LET entered == closeBrowserEntry(m)
         IN Out(entered.m, IF entered.pc = "returned" THEN "closed" ELSE "close")
    ELSE IF pc = "close" THEN Out(closeBrowserResume(m).m, "closed")
    ELSE Out([m EXCEPT !.currentAuthIndex = -1], "threw")

\* attemptLightweightReconnect up to its first await
reconnectEntry(m) ==
    IF ~m.browser \/ m.page = "null" THEN Out(m, "false")
    ELSE IF m.page = "closed" THEN Out(m, "false")
    ELSE IF m.currentAuthIndex < 0 THEN Out(m, "false")
    ELSE Out(m, "inject")

\* attemptLightweightReconnect giving the account up when it fails
reconnectResumeResetting(m, pc, ok) ==
    IF pc = "inject"
    THEN IF ok THEN Out(m, "finalUpdate") ELSE Out(m, "saveDebugArtifacts")
    ELSE IF pc = "finalUpdate" THEN Out(m, "true")
    ELSE Out([m EXCEPT !.currentAuthIndex = -1], "false")

\* attemptLightweightReconnect resumed at the await pc
reconnectResume(m, pc, ok) ==
    IF pc = "inject"
    THEN IF ok THEN Out(m, "finalUpdate") ELSE Out(m, "saveDebugArtifacts")
    ELSE IF pc = "finalUpdate" THEN Out(m, "true")
    ELSE Out(m, "false")

\* the rotation manager and the driver as constructed: no session active,
\* nothing counted, no switch under way, the server not yet started
RotationFresh ==
    /\ currentAuthIndex = -1
    /\ browser = FALSE
    /\ usageCount = 0
    /\ failureCount = 0
    /\ isAuthSwitching = FALSE
    /\ pending = <<>>
    /\ outcome = Step("constructor", <<>>, <<>>, Null, Null, Null)
    /\ server = "starting"
    /\ manager = NewManager

\* no session configured, no ceiling, no threshold
RotationInit ==
    /\ availableIndices = <<>>
    /\ config = Config(0, 0, {})
    /\ RotationFresh

\* new FormatConverter(logger, serverSystem), no request translated yet
ConverterInit ==
    /\ serverSystem = [forceThinking |-> FALSE, forceWebSearch |-> FALSE,
                       forceUrlContext |-> FALSE]
    /\ openaiBody = Body(OneUserMessage, NoThinking, Undefined, Undefined)
    /\ googleRequest = Null
    /\ streamUsage = Null
    /\ streamState = NewStreamState
    /\ chunks = Return("null", <<>>)
    /\ response = NoResponse
    /\ googleResponse = Null
    /\ openaiResponse = Null
    /\ streams = NoStreams

\* new ConnectionRegistry(logger)
RegistryInit ==
    /\ connections = {}
    /\ messageQueues = EmptyMap
    /\ reconnectGraceTimer = NoTimer
    /\ timers = [t \in TimerIds |-> "unset"]
    /\ queues = [q \in QueueIds |-> Unborn]
    /\ last = Op("constructor", "none", "none")
    /\ peerDuringGrace = {}

Init == RegistryInit /\ ConverterInit /\ RotationInit

(***************************************************************************)
(* Timers of the runtime.                                                  *)
(***************************************************************************)
UnsetTimers == { t \in TimerIds : timers[t] = "unset" }
\* setTimeout returns a fresh handle
NewTimer == CHOOSE t \in UnsetTimers : \A u \in UnsetTimers : t <= u

\* clearTimeout(handle): stops a pending timer, no effect on one that fired
clearTimeout(ts, t) ==
    IF ts[t] = "pending" THEN [ts EXCEPT ![t] = "cleared"] ELSE ts

(***************************************************************************)
(* ConnectionRegistry operations.                                          *)
(***************************************************************************)
addConnection(websocket) ==
    /\ websocket \notin connections
    /\ IF reconnectGraceTimer # NoTimer
       THEN /\ timers' = clearTimeout(timers, reconnectGraceTimer)
            /\ reconnectGraceTimer' = NoTimer
            /\ last' = Op("addConnection", "info_cancel_grace", "connectionAdded")
       ELSE /\ UNCHANGED <<timers, reconnectGraceTimer>>
            /\ last' = Op("addConnection", "none", "connectionAdded")
    /\ connections' = connections \cup {websocket}
    /\ peerDuringGrace' = peerDuringGrace \cup
            { t \in TimerIds : timers[t] = "pending" /\ t # reconnectGraceTimer }
    /\ UNCHANGED <<messageQueues, queues>>
    /\ UNCHANGED converterVars
    /\ UNCHANGED rotationVars

\* _removeConnection cleaning up at once instead of after the grace period
removeConnectionNoGrace(websocket) ==
    /\ websocket \in connections
    /\ UnsetTimers # {}
    /\ connections' = connections \ {websocket}
    /\ timers' = [timers EXCEPT ![NewTimer] = "fired"]
    /\ reconnectGraceTimer' = NewTimer
    /\ queues' = [q \in QueueIds |->
                    IF q \in Range(messageQueues) THEN close(queues[q]) ELSE queues[q]]
    /\ messageQueues' = EmptyMap
    /\ last' = Op("removeConnection", "error_connection_lost", "connectionLost")
    /\ UNCHANGED peerDuringGrace
    /\ UNCHANGED converterVars
    /\ UNCHANGED rotationVars

\* the websocket's "close" event
removeConnection(websocket) ==
    /\ websocket \in connections
    /\ UnsetTimers # {}
    /\ connections' = connections \ {websocket}
    /\ timers' = [timers EXCEPT ![NewTimer] = "pending"]
    /\ reconnectGraceTimer' = NewTimer
    /\ last' = Op("removeConnection", "info_grace_start", "connectionRemoved")
    /\ UNCHANGED <<messageQueues, queues, peerDuringGrace>>
    /\ UNCHANGED converterVars
    /\ UNCHANGED rotationVars

\* the callback with the queue.close() calls left out
graceTimerCallbackNoClose(t) ==
    /\ timers[t] = "pending"
    /\ timers' = [timers EXCEPT ![t] = "fired"]
    /\ queues' = queues
    /\ messageQueues' = EmptyMap
    /\ last' = Op("graceTimer", "error_connection_lost", "connectionLost")
    /\ UNCHANGED <<connections, reconnectGraceTimer, peerDuringGrace>>
    /\ UNCHANGED converterVars
    /\ UNCHANGED rotationVars

\* the callback given to setTimeout in _removeConnection
graceTimerCallback(t) ==
    /\ timers[t] = "pending"
    /\ timers' = [timers EXCEPT ![t] = "fired"]
    /\ queues' = [q \in QueueIds |->
                    IF q \in Range(messageQueues) THEN close(queues[q]) ELSE queues[q]]
    /\ messageQueues' = EmptyMap
    /\ last' = Op("graceTimer", "error_connection_lost", "connectionLost")
    /\ UNCHANGED <<connections, reconnectGraceTimer, peerDuringGrace>>
    /\ UNCHANGED converterVars
    /\ UNCHANGED rotationVars

\* _routeMessage with stream_close falling into the verbatim cases
routeMessageVerbatimClose(message, queue) ==
    IF message.event_type \in KnownEventTypes
    THEN enqueue(queue, message)
    ELSE queue

\* _routeMessage(message, queue): the queue after the call
routeMessage(message, queue) ==
    IF message.event_type \in {"response_headers", "chunk", "error"}
    THEN enqueue(queue, message)
    ELSE IF message.event_type = "stream_close"
    THEN enqueue(queue, StreamEnd)
    ELSE queue

routeLog(message) ==
    IF message.event_type \in KnownEventTypes THEN "none" ELSE "warn_unknown_event"

\* the lookup falling back to some registered queue when the id has none
lookupOrAny(requestId) ==
    IF requestId \in DOMAIN messageQueues THEN messageQueues[requestId]
    ELSE IF DOMAIN messageQueues # {}
    THEN messageQueues[CHOOSE id \in DOMAIN messageQueues : TRUE]
    ELSE 0

\* a lookup that crosses the two request ids
lookupCrossed(requestId) ==
    IF requestId = "r1" /\ "r2" \in DOMAIN messageQueues THEN messageQueues["r2"]
    ELSE IF requestId = "r2" /\ "r1" \in DOMAIN messageQueues THEN messageQueues["r1"]
    ELSE IF requestId \in DOMAIN messageQueues THEN messageQueues[requestId] ELSE 0

\* this.messageQueues.get(requestId), 0 for undefined
lookup(requestId) ==
    IF requestId \in DOMAIN messageQueues THEN messageQueues[requestId] ELSE 0

\* exceptions raised inside the try block of _handleIncomingMessage
Thrown == {"SyntaxError", "TypeError"}

\* the try block: the exception it raises, or else the line it logs.
\* JSON.parse raises on bad text; reading .request_id of null raises
tryBlock(messageData) ==
    LET parsed == JSONParse(messageData) IN
    IF ~parsed.ok THEN "SyntaxError"
    ELSE IF parsed.kind = "null" THEN "TypeError"
    ELSE IF ~Truthy(parsed.value.request_id) THEN "warn_missing_request_id"
    ELSE IF lookup(parsed.value.request_id) # 0 THEN routeLog(parsed.value)
    ELSE "warn_unknown_request"

\* the handler with the try/catch left out
handleLogNoCatch(messageData) == tryBlock(messageData)

\* try { ... } catch (error) { logger.error(...) }: what the handler logs,
\* or the exception that leaves it
handleLog(messageData) ==
    IF tryBlock(messageData) \in Thrown THEN "error_parse" ELSE tryBlock(messageData)

\* the websocket's "message" event; the handler is installed by addConnection
handleIncomingMessage(messageData) ==
    /\ connections # {}
    /\ LET parsed == JSONParse(messageData)
           queue == lookup(parsed.value.request_id)
       IN IF tryBlock(messageData) \notin Thrown
             /\ Truthy(parsed.value.request_id) /\ queue # 0
          THEN queues' = [queues EXCEPT ![queue] = routeMessage(parsed.value, @)]
          ELSE UNCHANGED queues
    /\ last' = Op("message", handleLog(messageData), "none")
    /\ UNCHANGED <<connections, messageQueues, reconnectGraceTimer, timers, peerDuringGrace>>
    /\ UNCHANGED converterVars
    /\ UNCHANGED rotationVars

UnbornQueues == { q \in QueueIds : ~queues[q].born }
\* new MessageQueue()
NewQueue == CHOOSE q \in UnbornQueues : \A u \in UnbornQueues : q <= u

createMessageQueue(requestId) ==
    /\ UnbornQueues # {}
    /\ queues' = [queues EXCEPT ![NewQueue] = NewMessageQueue]
    /\ messageQueues' = MapSet(messageQueues, requestId, NewQueue)
    /\ last' = Op("createMessageQueue", "none", "none")
    /\ UNCHANGED <<connections, reconnectGraceTimer, timers, peerDuringGrace>>
    /\ UNCHANGED converterVars
    /\ UNCHANGED rotationVars

\* removeMessageQueue with the queue.close() call left out
removeMessageQueueNoClose(requestId) ==
    /\ IF requestId \in DOMAIN messageQueues
       THEN /\ queues' = queues
            /\ messageQueues' = MapDelete(messageQueues, requestId)
       ELSE UNCHANGED <<queues, messageQueues>>
    /\ last' = Op("removeMessageQueue", "none", "none")
    /\ UNCHANGED <<connections, reconnectGraceTimer, timers, peerDuringGrace>>
    /\ UNCHANGED converterVars
    /\ UNCHANGED rotationVars

\* removeMessageQueue with the Map.delete call left out
removeMessageQueueNoDelete(requestId) ==
    /\ IF requestId \in DOMAIN messageQueues
       THEN /\ queues' = [queues EXCEPT ![messageQueues[requestId]] = close(@)]
            /\ messageQueues' = messageQueues
       ELSE UNCHANGED <<queues, messageQueues>>
    /\ last' = Op("removeMessageQueue", "none", "none")
    /\ UNCHANGED <<connections, reconnectGraceTimer, timers, peerDuringGrace>>
    /\ UNCHANGED converterVars
    /\ UNCHANGED rotationVars

removeMessageQueue(requestId) ==
    /\ IF requestId \in DOMAIN messageQueues
       THEN /\ queues' = [queues EXCEPT ![messageQueues[requestId]] = close(@)]
            /\ messageQueues' = MapDelete(messageQueues, requestId)
       ELSE UNCHANGED <<queues, messageQueues>>
    /\ last' = Op("removeMessageQueue", "none", "none")
    /\ UNCHANGED <<connections, reconnectGraceTimer, timers, peerDuringGrace>>
    /\ UNCHANGED converterVars
    /\ UNCHANGED rotationVars

\* the request handler that owns queue q awaits queue.dequeue(); it makes
\* the next call only after the previous one has returned
dequeueCall(q) ==
    /\ queues[q].born
    /\ queues[q].waiters = 0
    /\ queues' = [queues EXCEPT ![q] = dequeue(@)]
    /\ last' = Op("dequeue", dequeueResult(queues[q]), "none")
    /\ UNCHANGED <<connections, messageQueues, reconnectGraceTimer, timers, peerDuringGrace>>
    /\ UNCHANGED converterVars
    /\ UNCHANGED rotationVars

\* events accepted so far by all queues together
RECURSIVE SumEnqueued(_)
SumEnqueued(S) ==
    IF S = {} THEN 0
    ELSE LET q == CHOOSE x \in S : TRUE
         IN Len(queues[q].enqueued) + SumEnqueued(S \ {q})
TotalEnqueued == SumEnqueued(QueueIds)

Next ==
    \/ \E ws \in Sockets : addConnection(ws)
    \/ \E ws \in Sockets : removeConnection(ws)
    \/ \E t \in TimerIds : graceTimerCallback(t)
    \/ \E m \in Frames : handleIncomingMessage(m) /\ UNCHANGED queues
    \/ \E id \in RequestIds : createMessageQueue(id)
    \/ \E id \in RequestIds : removeMessageQueue(id)
    \/ \E q \in QueueIds : dequeueCall(q)

\* Under Spec the peer sends only frames that the handler drops or that reach
\* no queue; frames that are enqueued are the subject of SpecRouting.
Spec == Init /\ [][Next]_vars

(***************************************************************************)
(* The routing specification: one peer that stays connected, every frame   *)
(* of the wire alphabet.                                                   *)
(***************************************************************************)
\* the frames offered under SpecRouting
RoutingFrames == ObjectFrames \cup { <<"garbage">> }

NextRouting ==
    \/ addConnection("ws1")
    \/ \E m \in RoutingFrames :
          handleIncomingMessage(m) /\ (TotalEnqueued < RoutingMaxEnqueued \/ UNCHANGED queues)
    \/ \E id \in RequestIds :
          Cardinality(QueueIds \ UnbornQueues) < RoutingMaxQueues /\ createMessageQueue(id)
    \/ \E id \in RequestIds : removeMessageQueue(id)
    \/ \E q \in QueueIds : dequeueCall(q)

SpecRouting == Init /\ [][NextRouting]_vars

(***************************************************************************)
(* The correlation specification: one connected peer and several request   *)
(* handlers at once, each with its own queue; the peer's frames for the     *)
(* different request ids arrive in any interleaving.                        *)
(***************************************************************************)
\* the most events the peer's frames enqueue under SpecCorrelation
CorrelationMaxEnqueued == 3

\* the frames offered under SpecCorrelation: two chunks and the end of the
\* first request, a chunk and the end of the second
CorrelationFrames ==
    { <<"{", "r1", "chunk", "d1", "}">>, <<"{", "r1", "chunk", "d2", "}">>,
      <<"{", "r1", "stream_close", "d1", "}">>,
      <<"{", "r2", "chunk", "d1", "}">>, <<"{", "r2", "stream_close", "d1", "}">> }

NextCorrelation ==
    \/ addConnection("ws1")
    \/ \E m \in CorrelationFrames :
          TotalEnqueued < CorrelationMaxEnqueued /\ handleIncomingMessage(m)
    \/ \E id \in RequestIds : id \notin DOMAIN messageQueues /\ createMessageQueue(id)
    \/ \E q \in QueueIds : queues[q].messages # <<>> /\ dequeueCall(q)

SpecCorrelation == Init /\ [][NextCorrelation]_vars

(***************************************************************************)
(* The queue-contract specification: one MessageQueue, driven through its  *)
(* own enqueue / dequeue / close by any number of callers, so that several *)
(* dequeuers can be pending at once and close() can be called repeatedly.   *)
(***************************************************************************)
\* the events offered to enqueue
QueueEvents ==
    { [request_id |-> "r1", event_type |-> "chunk", data |-> "d1"],
      [request_id |-> "r1", event_type |-> "chunk", data |-> "d2"],
      StreamEnd }

\* queue.enqueue(event) called on the queue object
enqueueCall(q, event) ==
    /\ queues[q].born
    /\ queues' = [queues EXCEPT ![q] = enqueue(@, event)]
    /\ last' = Op("enqueue", "none", "none")
    /\ UNCHANGED <<connections, messageQueues, reconnectGraceTimer, timers, peerDuringGrace>>
    /\ UNCHANGED converterVars
    /\ UNCHANGED rotationVars

\* queue.dequeue() called while other dequeue() calls may still be pending
dequeueWait(q) ==
    /\ queues[q].born
    /\ queues' = [queues EXCEPT ![q] = dequeue(@)]
    /\ last' = Op("dequeue", dequeueResult(queues[q]), "none")
    /\ UNCHANGED <<connections, messageQueues, reconnectGraceTimer, timers, peerDuringGrace>>
    /\ UNCHANGED converterVars
    /\ UNCHANGED rotationVars

\* what close() hands to the dequeuers that are pending when it is called
closeResult(q) == IF q.waiters > 0 THEN "sentinel" ELSE "none"

\* queue.close() called on the queue object
closeCall(q) ==
    /\ queues[q].born
    /\ queues' = [queues EXCEPT ![q] = close(@)]
    /\ last' = Op("close", closeResult(queues[q]), "none")
    /\ UNCHANGED <<connections, messageQueues, reconnectGraceTimer, timers, peerDuringGrace>>
    /\ UNCHANGED converterVars
    /\ UNCHANGED rotationVars

NextQueue ==
    \/ UnbornQueues = QueueIds /\ createMessageQueue("r1")
    \/ \E q \in QueueIds, e \in QueueEvents :
          /\ queues[q].closed \/ Len(queues[q].enqueued) < QueueMaxEnqueued
          /\ enqueueCall(q, e)
    \/ \E q \in QueueIds : queues[q].waiters < QueueMaxWaiters /\ dequeueWait(q)
    \/ \E q \in QueueIds : closeCall(q)
    \/ removeMessageQueue("r1")

SpecQueue == Init /\ [][NextQueue]_vars

(***************************************************************************)
(* FormatConverter: the operations.                                        *)
(***************************************************************************)
\* translateOpenAIToGoogle leaving the usage cache as it finds it
translateOpenAIToGoogleNoReset ==
    /\ googleRequest' = translateRequest(openaiBody, serverSystem)
    /\ streamUsage' = streamUsage
    /\ last' = Op("translateOpenAIToGoogle", thinkingSource(openaiBody, serverSystem), "none")
    /\ UNCHANGED <<serverSystem, openaiBody>>
    /\ UNCHANGED nonStreamVars
    /\ UNCHANGED registryVars
    /\ UNCHANGED rotationVars

\* translateOpenAIToGoogle(openaiBody); the log tells which thinking source applied
translateOpenAIToGoogle ==
    /\ googleRequest' = translateRequest(openaiBody, serverSystem)
    /\ streamUsage' = Null
    /\ last' = Op("translateOpenAIToGoogle", thinkingSource(openaiBody, serverSystem), "none")
    /\ UNCHANGED <<serverSystem, openaiBody>>
    /\ UNCHANGED nonStreamVars
    /\ UNCHANGED registryVars
    /\ UNCHANGED rotationVars

\* a part that carries content: non-empty text, or inline data
ContentPart(part) ==
    \/ "text" \in DOMAIN part /\ part["text"] # ""
    \/ "inlineData" \in DOMAIN part

\* what the call logs
streamLog(googleChunk) ==
    IF ~googleChunk.prefix /\ googleChunk.text \in {"", " "} THEN "none"
    ELSE IF googleChunk.text \in {"[DONE]", "null"} THEN "none"
    ELSE IF googleChunk.text # "json" THEN "warn_parse"
    ELSE IF candidateOf(googleChunk.json) = Null
            /\ "promptFeedback" \in DOMAIN googleChunk.json THEN "warn_blocked"
    ELSE "none"

\* one call of translateGoogleToOpenAIStream for the current response
translateGoogleToOpenAIStream(googleChunk, stamp) ==
    /\ response.active
    /\ LET result == translateStream(googleChunk, streamUsage, streamState, stamp)
           json == googleChunk.json
           candidate == IF googleChunk.text = "json" THEN candidateOf(json) ELSE Null
       IN /\ streamUsage' = result.streamUsage
          /\ streamState' = result.streamState
          /\ chunks' = result.return
          /\ response' =
                [response EXCEPT
                    !.fragment = googleChunk,
                    !.fragments = @ + 1,
                    !.parts = @ + Len(partsOf(googleChunk)),
                    !.fed = @ \o SelectSeq(partsOf(googleChunk), ContentPart),
                    !.sent = @ \o result.return.list,
                    !.usages = IF googleChunk.text = "json" /\ "usageMetadata" \in DOMAIN json
                               THEN Append(@, json["usageMetadata"]) ELSE @,
                    !.finishes = IF candidate # Null /\ "finishReason" \in DOMAIN candidate
                                 THEN @ + 1 ELSE @,
                    !.blocked = IF googleChunk.text = "json" /\ candidate = Null
                                   /\ "promptFeedback" \in DOMAIN json
                                THEN @ + 1 ELSE @]
    /\ last' = Op("translateGoogleToOpenAIStream", streamLog(googleChunk), "none")
    /\ UNCHANGED <<serverSystem, openaiBody, googleRequest, streams>>
    /\ UNCHANGED nonStreamVars
    /\ UNCHANGED registryVars
    /\ UNCHANGED rotationVars

\* the request handler starts a response: it translates the request and
\* creates the stream state it will pass to every call for this response
beginResponse ==
    /\ translateOpenAIToGoogle
    /\ streamState' = NewStreamState
    /\ chunks' = Return("null", <<>>)
    /\ response' = [NoResponse EXCEPT !.active = TRUE, !.inherited = (streamUsage # Null)]
    /\ UNCHANGED streams

(***************************************************************************)
(* The request-translation specification: every request body and server    *)
(* setting of the bounded sets, translated by translateOpenAIToGoogle.     *)
(***************************************************************************)
InitOutbound ==
    /\ RegistryInit
    /\ RotationInit
    /\ serverSystem \in ServerSystems
    /\ openaiBody \in OpenAIBodies
    /\ googleRequest = Null
    /\ streamUsage = Null
    /\ streamState = NewStreamState
    /\ chunks = Return("null", <<>>)
    /\ response = NoResponse
    /\ googleResponse = Null
    /\ openaiResponse = Null
    /\ streams = NoStreams

NextOutbound ==
    translateOpenAIToGoogle /\ UNCHANGED <<streamState, chunks, response, streams>>

SpecOutbound == InitOutbound /\ [][NextOutbound]_vars

(***************************************************************************)
(* The stream-translation specification: responses translated one after    *)
(* the other by one converter, each fed fragments of the bounded alphabet  *)
(* until its terminal chunk has been emitted.                              *)
(***************************************************************************)
NextStream ==
    \/ beginResponse
    \/ \E googleChunk \in StreamFragments :
          /\ response.fragments < MaxFragments
          /\ response.finishes = 0
          /\ response.parts + Len(partsOf(googleChunk)) <= MaxParts
          /\ translateGoogleToOpenAIStream(googleChunk, Stamps[response.fragments + 1])

SpecStream == Init /\ [][NextStream]_vars

\* the terminal chunk of a returned list of chunks, or Null
terminalOf(list) ==
    IF list # <<>> /\ list[Len(list)].delta = EmptyMap
       /\ list[Len(list)].finish_reason # NullString
    THEN list[Len(list)] ELSE Null

\* the request handler starts response r while others may be under way: the
\* one converter translates its request, the handler creates its stream state
beginStream(r) ==
    /\ ~streams[r].active
    /\ translateOpenAIToGoogle
    /\ streams' = [streams EXCEPT ![r] = [IdleStream EXCEPT !.active = TRUE]]
    /\ UNCHANGED <<streamState, chunks, response>>

\* a fragment of response r is translated with r's stream state
feedStream(r, googleChunk) ==
    /\ streams[r].active
    /\ ~streams[r].finished
    /\ streams[r].fed < MaxFragments
    /\ LET result == translateStream(googleChunk, streamUsage, streams[r].state,
                                     Stamps[streams[r].fed + 1])
           terminal == terminalOf(result.return.list)
       IN /\ streamUsage' = result.streamUsage
          /\ streams' =
                [streams EXCEPT
                    ![r].state = result.streamState,
                    ![r].fed = @ + 1,
                    ![r].own = IF "usageMetadata" \in DOMAIN googleChunk.json
                               THEN Append(@, googleChunk.json["usageMetadata"]) ELSE @,
                    ![r].finished = terminal # Null,
                    ![r].attached = IF terminal # Null THEN terminal.usage ELSE @]
    /\ last' = Op("translateGoogleToOpenAIStream", streamLog(googleChunk), "none")
    /\ UNCHANGED <<serverSystem, openaiBody, googleRequest, streamState, chunks, response>>
    /\ UNCHANGED nonStreamVars
    /\ UNCHANGED registryVars
    /\ UNCHANGED rotationVars

(***************************************************************************)
(* The interleaving specification: two responses are begun and their       *)
(* fragments translated in any order by the one converter.                 *)
(***************************************************************************)
NextInterleaved ==
    \/ \E r \in StreamNames : beginStream(r)
    \/ \E r \in StreamNames, googleChunk \in InterleavedFragments :
          feedStream(r, googleChunk)

SpecInterleaved == Init /\ [][NextInterleaved]_vars

\* one call of convertGoogleToOpenAINonStream(googleResponse)
convertGoogleToOpenAINonStream ==
    /\ openaiResponse' = convertNonStream(googleResponse, Stamps[1])
    /\ last' = Op("convertGoogleToOpenAINonStream",
                  IF candidateOf(googleResponse) = Null THEN "warn_no_candidate" ELSE "none",
                  "none")
    /\ UNCHANGED <<serverSystem, openaiBody, googleRequest, streamUsage, streamState,
                   chunks, response, googleResponse, streams>>
    /\ UNCHANGED registryVars
    /\ UNCHANGED rotationVars

(***************************************************************************)
(* The non-stream specification: every remote response of the bounded set, *)
(* converted by convertGoogleToOpenAINonStream.                            *)
(***************************************************************************)
InitNonStream ==
    /\ RegistryInit
    /\ RotationInit
    /\ serverSystem = [forceThinking |-> FALSE, forceWebSearch |-> FALSE,
                       forceUrlContext |-> FALSE]
    /\ openaiBody = Body(OneUserMessage, NoThinking, Undefined, Undefined)
    /\ googleRequest = Null
    /\ streamUsage = Null
    /\ streamState = NewStreamState
    /\ chunks = Return("null", <<>>)
    /\ response = NoResponse
    /\ googleResponse \in NonStreamResponses
    /\ openaiResponse = Null
    /\ streams = NoStreams

NextNonStream == convertGoogleToOpenAINonStream

SpecNonStream == InitNonStream /\ [][NextNonStream]_vars

(***************************************************************************)
(* Session rotation: the operations.                                       *)
(***************************************************************************)
\* what the start of a switch leaves: the flag, the switches under way, the
\* switch asked for, the activations asked of the driver and, when the
\* operation ends at once, what it reports
Began(flag, underWay, switch, driver, result) ==
    [isAuthSwitching |-> flag, pending |-> underWay, switch |-> switch,
     driver |-> driver, result |-> result]

\* the single-account test never met
singleAccountNever(available) == FALSE

\* authSource.availableIndices.length <= 1: there is no other account
singleAccount(available) == Len(available) <= 1

\* switchToNext() starting although a switch is under way
switchToNextUnguarded(origin) ==
    IF singleAccount(availableIndices)
    THEN Began(isAuthSwitching, pending,
               Switch("switchToNext", origin, currentAuthIndex, -1, "rejected"),
               <<>>, Failure("Only one available account, cannot switch."))
    ELSE LET target == getNextAuthIndex(availableIndices, currentAuthIndex)
             switch == Switch("switchToNext", origin, currentAuthIndex, target, "activate")
         IN Began(TRUE, Append(pending, switch), switch, <<target>>, Null)

\* switchToNext(), up to the activation it asks of the driver
switchToNext(origin) ==
    IF isAuthSwitching
    THEN Began(isAuthSwitching, pending,
               Switch("switchToNext", origin, currentAuthIndex, -1, "rejected"),
               <<>>, Failure("Switch already in progress."))
    ELSE IF singleAccount(availableIndices)
    THEN Began(isAuthSwitching, pending,
               Switch("switchToNext", origin, currentAuthIndex, -1, "rejected"),
               <<>>, Failure("Only one available account, cannot switch."))
    ELSE LET target == getNextAuthIndex(availableIndices, currentAuthIndex)
             switch == Switch("switchToNext", origin, currentAuthIndex, target, "activate")
         IN Began(TRUE, Append(pending, switch), switch, <<target>>, Null)

\* switchToSpecific(index) taking any index to the driver
switchToSpecificUnchecked(origin, index) ==
    IF isAuthSwitching
    THEN Began(isAuthSwitching, pending,
               Switch("switchToSpecific", origin, currentAuthIndex, index, "rejected"),
               <<>>, Failure("Switch already in progress."))
    ELSE LET switch == Switch("switchToSpecific", origin, currentAuthIndex, index, "activate")
         IN Began(TRUE, Append(pending, switch), switch, <<index>>, Null)

\* switchToSpecific(index), up to the activation it asks of the driver
switchToSpecific(origin, index) ==
    IF isAuthSwitching
    THEN Began(isAuthSwitching, pending,
               Switch("switchToSpecific", origin, currentAuthIndex, index, "rejected"),
               <<>>, Failure("Switch already in progress."))
    ELSE IF ~includes(availableIndices, index)
    THEN Began(isAuthSwitching, pending,
               Switch("switchToSpecific", origin, currentAuthIndex, index, "rejected"),
               <<>>, Failure("Invalid index: not among the valid accounts."))
    ELSE LET switch == Switch("switchToSpecific", origin, currentAuthIndex, index, "activate")
         IN Began(TRUE, Append(pending, switch), switch, <<index>>, Null)

\* the counters never reset
countersAfterKept(result) == <<usageCount, failureCount>>

\* usage and failure counter once a switch has reported: reset on success
countersAfter(result) ==
    IF result.success THEN <<0, 0>> ELSE <<usageCount, failureCount>>

\* the ceiling test without the test that a ceiling is configured
usageCeilingReachedUnconfigured(count) == count >= config.switchOnUses

\* a usage ceiling is configured and the usage counter has reached it
usageCeilingReached(count) ==
    config.switchOnUses > 0 /\ count >= config.switchOnUses

\* the failure test with the threshold alone
failureSwitchDueThresholdOnly(statusCode, count) ==
    config.failureThreshold > 0 /\ count >= config.failureThreshold

\* the status code asks for an immediate switch, or a threshold is configured
\* and the failure counter has reached it
failureSwitchDue(statusCode, count) ==
    \/ statusCode \in config.immediateSwitchStatusCodes
    \/ config.failureThreshold > 0 /\ count >= config.failureThreshold

\* what POST /api/switch-account sends for the result of its switch
routeResponse(op, result) ==
    IF op = "switchToSpecific"
    THEN IF result.success
         THEN Send(200, "Switch successful! Account # activated.", result.newIndex, "")
         ELSE Send(400, "", -1, result.reason)
    ELSE IF result.success
         THEN Send(200, "Switch successful! Switched to account #.", result.newIndex, "")
         ELSE IF "fallback" \in DOMAIN result /\ result.fallback
         THEN Send(200, "Switch failed, but successfully fell back to account #.",
                   result.newIndex, "")
         ELSE Send(409, "Operation not executed: ", -1, result.reason)

\* the response of the route that awaited the switch, none for another origin
responseTo(switch, result) ==
    IF switch.origin = "route" THEN routeResponse(switch.op, result) ELSE Null

\* pending without its k-th switch
Without(list, k) == SubSeq(list, 1, k - 1) \o SubSeq(list, k + 1, Len(list))

\* serverSystem.start(initialAuthIndex): the first activation; main exits the
\* process when it throws
start(parsed) ==
    /\ server = "starting"
    /\ LET authIndex == initialAuthIndex(parsed)
       IN IF launchRejects(authIndex)
          THEN /\ currentAuthIndex' = -1
               /\ server' = "exited"
               /\ outcome' = Step("start", <<>>, <<authIndex>>, Null,
                                  Failure("Invalid authIndex"), Null)
               /\ UNCHANGED browser
          ELSE \E end \in launchOrSwitchContext(authIndex, availableIndices,
                                                currentAuthIndex, browser) :
                  /\ currentAuthIndex' = end.currentAuthIndex
                  /\ browser' = end.browser
                  /\ server' = IF end.threw THEN "exited" ELSE "listening"
                  /\ outcome' = Step("start", <<>>, <<authIndex>>, Null,
                                     IF end.threw THEN Failure("Activation failed")
                                     ELSE Success(end.currentAuthIndex), Null)
    /\ UNCHANGED <<availableIndices, config, usageCount, failureCount,
                   isAuthSwitching, pending>>
    /\ UNCHANGED <<registryVars, last, converterVars, manager>>

\* the main browser's "disconnected" event
browserDisconnected ==
    /\ server = "listening"
    /\ browser
    /\ browser' = FALSE
    /\ currentAuthIndex' = -1
    /\ outcome' = Step("disconnected", <<>>, <<>>, Null, Null, Null)
    /\ UNCHANGED <<availableIndices, config, usageCount, failureCount,
                   isAuthSwitching, pending, server>>
    /\ UNCHANGED <<registryVars, last, converterVars, manager>>

\* a switch operation called by step on input: it reports at once, or leaves
\* its activation under way
call(step, input, began) ==
    /\ isAuthSwitching' = began.isAuthSwitching
    /\ pending' = began.pending
    /\ outcome' = [Step(step, <<began.switch.op>>, began.driver, began.switch,
                        began.result,
                        IF began.result = Null THEN Null
                        ELSE responseTo(began.switch, began.result))
                   EXCEPT !.input = input]

\* recordSuccess()
recordSuccess ==
    /\ server = "listening"
    /\ usageCount < MaxUses
    /\ usageCount' = usageCount + 1
    /\ IF usageCeilingReached(usageCount')
       THEN call("recordSuccess", <<>>, switchToNext("recordSuccess"))
       ELSE /\ outcome' = Step("recordSuccess", <<>>, <<>>, Null, Null, Null)
            /\ UNCHANGED <<isAuthSwitching, pending>>
    /\ UNCHANGED <<availableIndices, config, currentAuthIndex, browser, failureCount,
                   server>>
    /\ UNCHANGED <<registryVars, last, converterVars, manager>>

\* recordFailure(statusCode)
recordFailure(statusCode) ==
    /\ server = "listening"
    /\ failureCount < MaxFailures
    /\ failureCount' = failureCount + 1
    /\ IF failureSwitchDue(statusCode, failureCount')
       THEN call("recordFailure", <<statusCode>>, switchToNext("recordFailure"))
       ELSE /\ outcome' = [Step("recordFailure", <<>>, <<>>, Null, Null, Null)
                           EXCEPT !.input = <<statusCode>>]
            /\ UNCHANGED <<isAuthSwitching, pending>>
    /\ UNCHANGED <<availableIndices, config, currentAuthIndex, browser, usageCount,
                   server>>
    /\ UNCHANGED <<registryVars, last, converterVars, manager>>

\* the request bodies of POST /api/switch-account: with or without targetIndex
SwitchBodies == {EmptyMap} \cup { [k \in {"targetIndex"} |-> i] : i \in AuthIndices }

\* POST /api/switch-account, up to the await of the switch it calls
switchAccountRoute(body) ==
    /\ server = "listening"
    /\ IF "targetIndex" \in DOMAIN body
       THEN call("switchAccountRoute", <<>>, switchToSpecific("route", body["targetIndex"]))
       ELSE IF singleAccount(availableIndices)
       THEN /\ outcome' = Step("switchAccountRoute", <<>>, <<>>, Null, Null,
                               Send(400, "Switch operation cancelled: Only one available account, cannot switch.",
                                    -1, ""))
            /\ UNCHANGED <<isAuthSwitching, pending>>
       ELSE call("switchAccountRoute", <<>>, switchToNext("route"))
    /\ UNCHANGED <<availableIndices, config, currentAuthIndex, browser, usageCount,
                   failureCount, server>>
    /\ UNCHANGED <<registryVars, last, converterVars, manager>>

\* the k-th switch under way reports result: the flag is lowered, the
\* counters are reset on success, the awaiting route answers
finish(k, result, end) ==
    /\ currentAuthIndex' = end.currentAuthIndex
    /\ browser' = end.browser
    /\ usageCount' = countersAfter(result)[1]
    /\ failureCount' = countersAfter(result)[2]
    /\ isAuthSwitching' = FALSE
    /\ pending' = Without(pending, k)
    /\ outcome' = Step("activationSettles", <<>>, <<>>, pending[k], result,
                       responseTo(pending[k], result))

\* the activation a switch awaits ends: the switch reports success, falls
\* back to the previous index, or reports what became of the fallback
activationSettles(k) ==
    /\ k \in DOMAIN pending
    /\ LET switch == pending[k]
           authIndex == IF switch.phase = "activate" THEN switch.target
                        ELSE switch.previous
       IN \E end \in launchOrSwitchContext(authIndex, availableIndices,
                                           currentAuthIndex, browser) :
             IF switch.phase = "activate" /\ ~end.threw
             THEN finish(k, Success(end.currentAuthIndex), end)
             ELSE IF switch.phase = "activate" /\ switch.op = "switchToSpecific"
             THEN finish(k, Failure("Activation failed."), end)
             ELSE IF switch.phase = "activate" /\ launchRejects(switch.previous)
             THEN finish(k, Failure("Activation failed, no previous account to fall back to."),
                         Ended(TRUE, -1, end.browser))
             ELSE IF switch.phase = "activate"
             THEN /\ currentAuthIndex' = end.currentAuthIndex
                  /\ browser' = end.browser
                  /\ pending' = [pending EXCEPT ![k].phase = "fallback"]
                  /\ outcome' = Step("activationSettles", <<>>, <<switch.previous>>,
                                     switch, Null, Null)
                  /\ UNCHANGED <<usageCount, failureCount, isAuthSwitching>>
             ELSE IF ~end.threw
             THEN finish(k, Fallback(end.currentAuthIndex), end)
             ELSE finish(k, Failure("Activation and fallback failed."), end)
    /\ UNCHANGED <<availableIndices, config, server>>
    /\ UNCHANGED <<registryVars, last, converterVars, manager>>

(***************************************************************************)
(* The rotation specification: every list of valid indices and every       *)
(* configuration of the bounded sets; the server starts, requests succeed  *)
(* and fail, the route asks for switches, activations end, the browser     *)
(* disconnects.                                                            *)
(***************************************************************************)
InitRotation ==
    /\ RegistryInit
    /\ ConverterInit
    /\ availableIndices \in AvailableLists
    /\ config \in Configs
    /\ RotationFresh

NextRotation ==
    \/ \E parsed \in ParsedIndices : start(parsed)
    \/ recordSuccess
    \/ \E statusCode \in StatusCodes : recordFailure(statusCode)
    \/ \E body \in SwitchBodies : switchAccountRoute(body)
    \/ \E k \in DOMAIN pending : activationSettles(k)
    \/ browserDisconnected

SpecRotation == InitRotation /\ [][NextRotation]_vars

(***************************************************************************)
(* The driver specification: launchOrSwitchContext, closeBrowser and        *)
(* attemptLightweightReconnect called in any order and overlapping, each    *)
(* resumed at its awaits in any interleaving, and the browser              *)
(* disconnecting at any moment.                                            *)
(***************************************************************************)
managerFrame ==
    UNCHANGED <<registryVars, last, converterVars, availableIndices, config,
                currentAuthIndex, browser, usageCount, failureCount, isAuthSwitching,
                pending, outcome, server>>

\* the driver after a new suspended ran up to its first await or to its end
afterEntry(out, op, authIndex) ==
    [out.m EXCEPT !.started = @ + 1,
                  !.calls = IF out.pc \in Ends THEN @
                            ELSE Append(@, Call(op, authIndex, out.pc)),
                  !.last = Did(op, authIndex, "entry", out.pc)]

\* the driver after suspended k ran from its await to the next or to its end
afterResume(out, k) ==
    LET suspended == manager.calls[k]
    IN [out.m EXCEPT !.calls = IF out.pc \in Ends THEN Without(@, k)
                               ELSE [@ EXCEPT ![k].pc = out.pc],
                     !.last = Did(suspended.op, suspended.authIndex, suspended.pc, out.pc)]

\* a caller invokes launchOrSwitchContext(authIndex)
launchOrSwitchContextCall(authIndex, executable) ==
    /\ manager.started < MaxCalls
    /\ manager' = afterEntry(launchEntry(manager, authIndex, executable),
                          "launchOrSwitchContext", authIndex)
    /\ managerFrame

\* a caller invokes closeBrowser()
closeBrowserCall ==
    /\ manager.started < MaxCalls
    /\ manager' = afterEntry(closeBrowserEntry(manager), "closeBrowser", -1)
    /\ managerFrame

\* a caller invokes attemptLightweightReconnect()
attemptLightweightReconnectCall ==
    /\ manager.started < MaxCalls
    /\ manager' = afterEntry(reconnectEntry(manager), "attemptLightweightReconnect", -1)
    /\ managerFrame

\* the promise suspended k awaits settles: fulfilled (ok) or rejected.  A browser
\* operation cannot fulfil once the browser is gone; firefox.launch can
resume(k, ok, executable) ==
    /\ k \in DOMAIN manager.calls
    /\ LET suspended == manager.calls[k]
       IN /\ ok => (manager.browser \/ suspended.pc = "launch")
          /\ manager' =
                afterResume(IF suspended.op = "launchOrSwitchContext"
                        THEN launchResume(manager, suspended.authIndex, suspended.pc, ok, executable)
                        ELSE IF suspended.op = "closeBrowser"
                        THEN closeBrowserResume(manager)
                        ELSE reconnectResume(manager, suspended.pc, ok), k)
    /\ managerFrame

\* the browser's "disconnected" event (ProxyUtils.js 1129-1136)
disconnected ==
    /\ manager.browser
    /\ manager' = [resetReferences(manager) EXCEPT
                      !.last = Did("disconnected", -1, "entry", "returned")]
    /\ managerFrame

NextBrowser ==
    \/ \E authIndex \in LaunchIndices, executable \in BOOLEAN :
          launchOrSwitchContextCall(authIndex, executable)
    \/ closeBrowserCall
    \/ attemptLightweightReconnectCall
    \/ \E k \in 1..MaxCalls, ok \in BOOLEAN, executable \in BOOLEAN :
          resume(k, ok, executable)
    \/ disconnected

SpecBrowser == Init /\ [][NextBrowser]_vars

TypeOK ==
    /\ connections \subseteq Sockets
    /\ DOMAIN messageQueues \subseteq RequestIds
    /\ Range(messageQueues) \subseteq QueueIds
    /\ reconnectGraceTimer \in TimerIds \cup {NoTimer}
    /\ peerDuringGrace \subseteq TimerIds

(***************************************************************************)
(* Properties.                                                             *)
(***************************************************************************)
\* the request id a frame carries on the wire, Undefined when it carries none
CarriedRequestId(m) == IF m \in ObjectFrames THEN m[2] ELSE Undefined

\* the queues a request handler still holds although the registry dropped them
Detached(q) == queues[q].born /\ q \notin Range(messageQueues)

\* C1: a frame whose request_id has no queue in the queue map raises nothing
\* and enqueues nothing: the queue map and every queue are left as they were.
C1_UnknownRequestIdDropped ==
    [][\A m \in ObjectFrames :
          (/\ last'.op = "message"
           /\ Truthy(CarriedRequestId(m))
           /\ CarriedRequestId(m) \notin DOMAIN messageQueues
           /\ handleIncomingMessage(m))
          => (/\ UNCHANGED <<messageQueues, queues>>
              /\ last'.log = "warn_unknown_request")]_vars

\* a frame for an unregistered id was dropped while another request's queue
\* holds a buffered event
C1_Witness ==
    /\ last.op = "message"
    /\ last.log = "warn_unknown_request"
    /\ \E id \in DOMAIN messageQueues : Len(queues[messageQueues[id]].messages) > 0

\* C2: when a peer registers while a grace timer started by a disconnect is
\* pending, that timer never fires (no teardown, no connectionLost).
C2_NewPeerStopsTeardown ==
    \A t \in peerDuringGrace : timers[t] # "fired"

\* C3: a pending grace timer is disarmed only by a peer registering; when it
\* expires every registered queue is closed with its waiters released, the
\* queue map is emptied and connectionLost is emitted.
C3_GraceExpiryTearsDown ==
    [][\A t \in TimerIds :
          /\ (timers[t] = "pending" /\ timers'[t] # "pending")
                => (timers'[t] = "fired" \/ last'.op = "addConnection")
          /\ (timers[t] = "pending" /\ timers'[t] = "fired")
                => (/\ DOMAIN messageQueues' = {}
                    /\ \A q \in Range(messageQueues) :
                          queues'[q].closed /\ queues'[q].waiters = 0
                    /\ last'.emit = "connectionLost")]_vars

\* the grace timer expired with no peer registered and both queues went down
C3_Witness ==
    /\ last.emit = "connectionLost"
    /\ connections = {}
    /\ DOMAIN messageQueues = {}
    /\ \A q \in QueueIds : queues[q].born /\ queues[q].closed /\ queues[q].waiters = 0

\* C4: a grace timer is either cancelled or fires, never both: a cancelled
\* timer stays cancelled, a timer that fired is no longer held as pending by
\* the registry, and addConnection cancels only a timer that is pending.
C4_TimerCancelledXorFired ==
    [][\A t \in TimerIds :
          /\ timers[t] = "cleared" => timers'[t] = "cleared"
          /\ timers'[t] = "fired" => reconnectGraceTimer' # t
          /\ (last'.log = "info_cancel_grace" /\ reconnectGraceTimer = t)
                => timers[t] = "pending"]_vars

\* C5 as stated: a queue stays registered under its id until
\* removeMessageQueue(id) is called.
C5_RegisteredUntilRemoved ==
    [][\A id \in DOMAIN messageQueues :
          ~removeMessageQueue(id)
          => (id \in DOMAIN messageQueues' /\ messageQueues'[id] = messageQueues[id])]_vars

\* no queue object is registered under two ids, and a registered queue is open
OneQueuePerId ==
    /\ \A a, b \in DOMAIN messageQueues : a # b => messageQueues[a] # messageQueues[b]
    /\ \A id \in DOMAIN messageQueues :
          queues[messageQueues[id]].born /\ ~queues[messageQueues[id]].closed

\* C5 (amended): the queue map holds one queue of its own per id, and a queue
\* stays registered under its id until removeMessageQueue(id), until
\* createMessageQueue(id) replaces it, or until the grace timer expires.
C5_RegisteredUntilDiscarded ==
    [][/\ OneQueuePerId'
       /\ \A id \in DOMAIN messageQueues :
            (id \notin DOMAIN messageQueues' \/ messageQueues'[id] # messageQueues[id])
            => \/ removeMessageQueue(id)
               \/ createMessageQueue(id)
               \/ \E t \in TimerIds : graceTimerCallback(t)]_vars

\* both requests kept their queues through a disconnect and a reconnect
C5_Witness ==
    /\ last.op = "addConnection"
    /\ last.log = "info_cancel_grace"
    /\ DOMAIN messageQueues = RequestIds
    /\ OneQueuePerId

\* C6: removeMessageQueue(id) closes the queue registered under id, releasing
\* its waiter, and deletes the entry; every other entry and queue is kept; for
\* an id without a queue nothing changes.
C6_RemoveClosesThenDeletes ==
    [][\A id \in RequestIds :
          removeMessageQueue(id)
          => IF id \in DOMAIN messageQueues
             THEN /\ queues'[messageQueues[id]].closed
                  /\ queues'[messageQueues[id]].waiters = 0
                  /\ DOMAIN messageQueues' = DOMAIN messageQueues \ {id}
                  /\ \A o \in DOMAIN messageQueues' : messageQueues'[o] = messageQueues[o]
                  /\ \A q \in QueueIds \ {messageQueues[id]} : queues'[q] = queues[q]
             ELSE UNCHANGED <<messageQueues, queues, connections, timers,
                              reconnectGraceTimer>>]_vars

\* a queue was removed and is closed while the other request is still registered
C6_Witness ==
    /\ last.op = "removeMessageQueue"
    /\ \E q \in QueueIds : Detached(q) /\ queues[q].closed
    /\ \E id \in DOMAIN messageQueues : ~queues[messageQueues[id]].closed

\* what a frame for a registered request adds to the request's queue
ExpectedEvents(m) ==
    IF m[3] \in {"response_headers", "chunk", "error"}
    THEN << [request_id |-> m[2], event_type |-> m[3], data |-> m[4]] >>
    ELSE IF m[3] = "stream_close" THEN << StreamEnd >>
    ELSE << >>

\* C7: for a frame whose request_id has a registered queue, response_headers,
\* chunk and error are enqueued unchanged into that queue, stream_close is
\* enqueued as the STREAM_END sentinel, any other type enqueues nothing, and
\* no other queue is touched.
C7_DispatchByEventType ==
    [][\A m \in ObjectFrames :
          (/\ last'.op = "message"
           /\ CarriedRequestId(m) \in DOMAIN messageQueues
           /\ handleIncomingMessage(m))
          => LET q == messageQueues[CarriedRequestId(m)]
             IN /\ queues'[q].enqueued = queues[q].enqueued \o ExpectedEvents(m)
                /\ \A o \in QueueIds \ {q} : queues'[o] = queues[o]]_vars

\* a registered queue has received a chunk and then the sentinel of a stream_close
C7_Witness ==
    /\ last.op = "message"
    /\ \E id \in DOMAIN messageQueues :
          LET e == queues[messageQueues[id]].enqueued
          IN /\ Len(e) = 2
             /\ e[1] = [request_id |-> id, event_type |-> "chunk", data |-> "d2"]
             /\ e[2] = StreamEnd

\* frames that cannot be parsed or that carry no request_id
Malformed(m) ==
    m \in BrokenFrames \cup ScalarFrames \/ ~Truthy(CarriedRequestId(m))

\* C8: a frame that is not parseable or carries no request_id is logged and
\* dropped: no exception leaves the handler and the peer set, the queue map,
\* the queues and the grace timer are unchanged.
C8_MalformedFrameDropped ==
    [][\A m \in Frames :
          (last'.op = "message" /\ Malformed(m) /\ handleIncomingMessage(m))
          => (/\ last'.log \in {"error_parse", "warn_missing_request_id"}
              /\ UNCHANGED <<connections, messageQueues, reconnectGraceTimer,
                             timers, queues>>)]_vars

\* an unparseable frame arrived while a grace timer was pending, a peer was
\* connected and a request was outstanding
C8_Witness ==
    /\ last.op = "message"
    /\ last.log = "error_parse"
    /\ reconnectGraceTimer # NoTimer
    /\ timers[reconnectGraceTimer] = "pending"
    /\ connections # {}
    /\ DOMAIN messageQueues # {}

\* C9: removeMessageQueue(id) leaves no entry for id and a closed queue; a
\* queue that is no longer registered never receives an event and is never
\* registered again; only createMessageQueue adds an entry to the queue map.
C9_EventsAfterRemovalDiscarded ==
    [][/\ \A id \in DOMAIN messageQueues :
            removeMessageQueue(id)
            => (id \notin DOMAIN messageQueues' /\ queues'[messageQueues[id]].closed)
       /\ \A q \in QueueIds :
            Detached(q)
            => (queues'[q].enqueued = queues[q].enqueued
                /\ q \notin Range(messageQueues'))
       /\ \A id \in RequestIds :
            (id \notin DOMAIN messageQueues /\ id \in DOMAIN messageQueues')
            => createMessageQueue(id)]_vars

\* an event arrived for a request whose queue, which had received events, was
\* removed before: the event was dropped and the queue map is empty
C9_Witness ==
    /\ last.op = "message"
    /\ last.log = "warn_unknown_request"
    /\ DOMAIN messageQueues = {}
    /\ \E q \in QueueIds :
          Detached(q) /\ queues[q].closed /\ Len(queues[q].enqueued) > 0

IsPrefix(s, t) == Len(s) <= Len(t) /\ SubSeq(t, 1, Len(s)) = s

\* C10: dequeue delivers the events of a queue in the order of their enqueue:
\* what was delivered is a prefix of what was enqueued, and while the queue is
\* open the events not yet delivered are exactly the buffered ones, in order.
C10_FifoDelivery ==
    \A q \in QueueIds :
        queues[q].born
        => (/\ IsPrefix(queues[q].delivered, queues[q].enqueued)
            /\ ~queues[q].closed
                 => queues[q].enqueued = queues[q].delivered \o queues[q].messages)

\* two different events were dequeued from an open queue
C10_Witness ==
    \E q \in QueueIds :
        /\ ~queues[q].closed
        /\ Len(queues[q].delivered) = 2
        /\ queues[q].delivered[1] # queues[q].delivered[2]
        /\ last.op = "dequeue"

(***************************************************************************)
(* C11: close() moves the queue from OPEN to CLOSED and wakes every        *)
(* dequeuer pending at that moment with the terminal sentinel; a second    *)
(* close() changes nothing; a closed queue is never reopened.              *)
(***************************************************************************)
C11_CloseWakesAllOnce ==
    [][\A q \in QueueIds :
          /\ (last'.op = "close" /\ closeCall(q)) =>
                /\ queues'[q].closed /\ queues'[q].waiters = 0
                /\ queues[q].waiters > 0 => last'.log = "sentinel"
                /\ queues'[q].messages = queues[q].messages
                /\ queues'[q].delivered = queues[q].delivered
                /\ queues[q].closed => queues'[q] = queues[q]
          /\ queues[q].closed => queues'[q].closed]_vars

\* close() has just woken the pending dequeuers of an open queue
C11_Witness ==
    /\ last.op = "close" /\ last.log = "sentinel"
    /\ \E q \in QueueIds : queues[q].closed /\ queues[q].waiters = 0

(***************************************************************************)
(* C12: on a closed queue every dequeue() returns the terminal sentinel at *)
(* once, any number of times, never suspending the caller, and enqueue()   *)
(* on a closed queue is a no-op.                                           *)
(***************************************************************************)
C12_ClosedQueueInert ==
    [][\A q \in QueueIds : queues[q].closed =>
          /\ (last'.op = "dequeue" /\ dequeueWait(q)) =>
                last'.log = "sentinel" /\ queues'[q] = queues[q]
          /\ (last'.op = "enqueue" /\ \E e \in QueueEvents : enqueueCall(q, e)) =>
                queues'[q] = queues[q]]_vars

\* dequeue() on a closed queue that still buffers an event has returned the sentinel
C12_Witness ==
    /\ last.op = "dequeue" /\ last.log = "sentinel"
    /\ \E q \in QueueIds : queues[q].closed /\ Len(queues[q].messages) > 0

(***************************************************************************)
(* Reading the chunks of a streaming response.                             *)
(***************************************************************************)
\* the chunk's delta has content or reasoning content
ContentBearing(chunk) == DOMAIN chunk.delta \cap {"content", "reasoning_content"} # {}

\* the chunk that ends a response: empty delta and a finish reason
Terminal(chunk) == chunk.delta = EmptyMap /\ chunk.finish_reason # NullString

\* the text or the image data a content part carries
PayloadOf(part) ==
    IF "text" \in DOMAIN part /\ part["text"] # "" THEN part["text"]
    ELSE part["inlineData"].data

\* the chunk's delta shows the part's payload
Carries(chunk, part) ==
    \E k \in DOMAIN chunk.delta \cap {"content", "reasoning_content"} :
        \E i \in DOMAIN chunk.delta[k] : chunk.delta[k][i] = PayloadOf(part)

\* the usage record of the latest usage metadata fed in this response, or null
LatestUsage ==
    IF response.usages = <<>> THEN Null
    ELSE parseUsage(response.usages[Len(response.usages)])

(***************************************************************************)
(* C13: fragments carrying N content parts in total, followed by one       *)
(* fragment carrying finishReason, give exactly N content chunks in part   *)
(* order and then exactly one terminal chunk (empty delta, the finish      *)
(* reason) carrying the most recently cached usage record, or no usage if  *)
(* none was provided.                                                      *)
(***************************************************************************)
C13_PartsThenTerminal ==
    (response.finishes = 1 /\ response.blocked = 0) =>
        LET n == Len(response.fed)
            sent == response.sent
        IN /\ Len(sent) = n + 1
           /\ \A i \in 1..n :
                 /\ ContentBearing(sent[i]) /\ Carries(sent[i], response.fed[i])
                 /\ sent[i].finish_reason = NullString
           /\ Terminal(sent[n + 1])
           /\ sent[n + 1].finish_reason = "STOP"
           /\ sent[n + 1].usage = LatestUsage

\* two content parts and a usage record, then a fragment with only finishReason
C13_Witness ==
    /\ response.finishes = 1 /\ response.blocked = 0
    /\ Len(response.fed) = 2 /\ response.fed[1] # response.fed[2]
    /\ partsOf(response.fragment) = <<>>
    /\ response.usages # <<>>
    /\ Len(response.sent) = 3

C15_UsageCachedUntilTerminal ==
    LET sent == response.sent
        f == response.fragment
    IN /\ \A i \in DOMAIN sent :
             ("usage" \in DOMAIN sent[i] /\ sent[i].usage # Null) => Terminal(sent[i])
       /\ streamUsage # Null => streamUsage = LatestUsage
       /\ (f # Null /\ f.text = "json" /\ "usageMetadata" \in DOMAIN f.json) =>
             IF response.finishes > 0
             THEN /\ sent[Len(sent)].usage = parseUsage(f.json["usageMetadata"])
                  /\ streamUsage = Null
             ELSE streamUsage = parseUsage(f.json["usageMetadata"])

\* a second, different usage record has replaced the first in the cache
C15_Witness ==
    /\ Len(response.usages) = 2
    /\ response.usages[1] # response.usages[2]
    /\ streamUsage = parseUsage(response.usages[2])
    /\ response.sent # <<>>

(***************************************************************************)
(* C16: a usage record cached while translating one response is never on   *)
(* the terminal chunk of a later response: the cache is empty after a      *)
(* terminal chunk is emitted, and a response that supplies no usage        *)
(* metadata ends with no usage.                                            *)
(***************************************************************************)
C16_NoUsageFromEarlierResponse ==
    LET sent == response.sent
    IN /\ \A i \in DOMAIN sent : Terminal(sent[i]) =>
             \/ sent[i].usage = Null
             \/ \E j \in DOMAIN response.usages : sent[i].usage = parseUsage(response.usages[j])
       /\ response.usages = <<>> =>
             \A i \in DOMAIN sent : Terminal(sent[i]) => sent[i].usage = Null
       /\ (chunks.list # <<>> /\ Terminal(chunks.list[Len(chunks.list)])) => streamUsage = Null

\* a response begun while the cache still held a record has ended without usage
C16_Witness ==
    /\ response.inherited /\ response.usages = <<>>
    /\ response.finishes = 1
    /\ Terminal(response.sent[Len(response.sent)])
    /\ response.sent[Len(response.sent)].usage = Null

(***************************************************************************)
(* C20: a fragment with no candidate but a promptFeedback yields exactly   *)
(* one chunk whose delta content is a visible error message and whose      *)
(* finish_reason is terminal, raising no error; a fragment with neither a  *)
(* candidate nor a promptFeedback yields no chunk.                         *)
(***************************************************************************)
C20_SafetyBlockChunk ==
    LET f == response.fragment
    IN (f # Null /\ f.text = "json" /\ candidateOf(f.json) = Null) =>
          IF "promptFeedback" \in DOMAIN f.json
          THEN /\ chunks.kind = "chunks" /\ Len(chunks.list) = 1
               /\ "content" \in DOMAIN chunks.list[1].delta
               /\ \E i \in DOMAIN chunks.list[1].delta["content"] :
                     chunks.list[1].delta["content"][i] = f.json["promptFeedback"].blockReason
               /\ chunks.list[1].finish_reason = "stop"
          ELSE chunks.kind = "null" /\ chunks.list = <<>>

\* a fragment with an empty candidates array and a promptFeedback has been translated
C20_Witness ==
    /\ response.fragment # Null /\ response.fragment.text = "json"
    /\ "promptFeedback" \in DOMAIN response.fragment.json
    /\ "candidates" \in DOMAIN response.fragment.json
    /\ candidateOf(response.fragment.json) = Null
    /\ chunks.kind = "chunks"

(***************************************************************************)
(* Reading a translated request.                                           *)
(***************************************************************************)
\* the texts of a message's content, and of a contents entry, in order
TextsOfMessage(message) ==
    IF message.content.kind = "string" THEN << message.content.text >>
    ELSE [i \in DOMAIN message.content.parts |-> message.content.parts[i].text]
TextsOfEntry(entry) == [i \in DOMAIN entry.parts |-> entry.parts[i].text]

\* how often a tool descriptor occurs in a tools array
Occurrences(list, tool) == Cardinality({ i \in DOMAIN list : list[i] = tool })

\* the client sent a thinking-config object / a truthy reasoning_effort
ClientConfig == DOMAIN openaiBody.thinking # {}
ClientEffort ==
    Truthy(openaiBody.reasoning_effort) \/ Truthy(openaiBody.extra_reasoning_effort)

(***************************************************************************)
(* C17: for a request with only text messages translateOpenAIToGoogle      *)
(* produces exactly one contents entry per non-system message, in the      *)
(* original order, with role model for assistant messages and user for     *)
(* every other role; system messages produce no contents entry.            *)
(***************************************************************************)
C17_OneEntryPerConversationMessage ==
    googleRequest # Null =>
        LET kept == SelectSeq(openaiBody.messages, LAMBDA m : m.role # "system")
            contents == googleRequest.contents
        IN /\ Len(contents) = Len(kept)
           /\ \A i \in DOMAIN kept :
                 /\ contents[i].role = (IF kept[i].role = "assistant" THEN "model" ELSE "user")
                 /\ TextsOfEntry(contents[i]) = TextsOfMessage(kept[i])

\* a request with a system message and an assistant message has been translated
C17_Witness ==
    /\ googleRequest # Null
    /\ Len(openaiBody.messages) >= 2
    /\ \E i \in DOMAIN openaiBody.messages : openaiBody.messages[i].role = "system"
    /\ \E i \in DOMAIN openaiBody.messages : openaiBody.messages[i].role = "assistant"
    /\ Len(googleRequest.contents) = 1
    /\ googleRequest.contents[1].role = "model"

(***************************************************************************)
(* C18: the thinking configuration is resolved by strict priority: an      *)
(* explicit thinking-config object wins; otherwise a truthy                *)
(* reasoning_effort forces thought inclusion; otherwise forceThinking      *)
(* injects thought inclusion; forceThinking never changes what the client  *)
(* specified; with none of the three no thinking configuration is sent.    *)
(***************************************************************************)
C18_ThinkingPriority ==
    googleRequest # Null =>
        LET sent == googleRequest.generationConfig.thinkingConfig
            raw == rawThinkingConfig(openaiBody)
            unforced == translateRequest(openaiBody,
                                         [serverSystem EXCEPT !.forceThinking = FALSE])
        IN /\ ClientConfig =>
                /\ sent # Null
                /\ "include_thoughts" \in DOMAIN raw =>
                      sent["includeThoughts"] = raw["include_thoughts"]
                /\ ("include_thoughts" \notin DOMAIN raw /\ "includeThoughts" \in DOMAIN raw) =>
                      sent["includeThoughts"] = raw["includeThoughts"]
                /\ DOMAIN raw \cap {"include_thoughts", "includeThoughts"} = {} =>
                      DOMAIN sent = {}
           /\ (~ClientConfig /\ ClientEffort) => sent = [includeThoughts |-> TRUE]
           /\ (~ClientConfig /\ ~ClientEffort /\ serverSystem.forceThinking) =>
                 sent = [includeThoughts |-> TRUE]
           /\ (~ClientConfig /\ ~ClientEffort /\ ~serverSystem.forceThinking) => sent = Null
           /\ (ClientConfig \/ ClientEffort) =>
                 sent = unforced.generationConfig.thinkingConfig

\* an explicit include_thoughts: false has survived reasoning_effort and forceThinking
C18_Witness ==
    /\ googleRequest # Null
    /\ ClientConfig /\ ClientEffort /\ serverSystem.forceThinking
    /\ googleRequest.generationConfig.thinkingConfig = [includeThoughts |-> FALSE]
    /\ last.log = "explicit"

(***************************************************************************)
(* C19: with the force-web-search and force-url-context flags enabled the  *)
(* request contains each of the googleSearch and urlContext descriptors at *)
(* most once, also when the injection is applied a second time to a        *)
(* request that already contains them; a disabled flag adds no descriptor. *)
(***************************************************************************)
C19_ForcedToolsOnce ==
    googleRequest # Null =>
        LET tools == googleRequest.tools
            again == forceTools(tools, serverSystem)
        IN /\ Occurrences(tools.list, "googleSearch")
                 = (IF serverSystem.forceWebSearch THEN 1 ELSE 0)
           /\ Occurrences(tools.list, "urlContext")
                 = (IF serverSystem.forceUrlContext THEN 1 ELSE 0)
           /\ Occurrences(again.list, "googleSearch") <= 1
           /\ Occurrences(again.list, "urlContext") <= 1
           /\ again = tools

\* both flags enabled: the request carries the two descriptors
C19_Witness ==
    /\ googleRequest # Null
    /\ serverSystem.forceWebSearch /\ serverSystem.forceUrlContext
    /\ googleRequest.tools = [present |-> TRUE, list |-> <<"googleSearch", "urlContext">>]

(***************************************************************************)
(* C21: for a non-streaming remote response with one candidate whose text  *)
(* part is "hello", finishReason "STOP" and usage {promptTokenCount: 3,    *)
(* candidatesTokenCount: 2}, convertGoogleToOpenAINonStream returns        *)
(* message.content == "hello", finish_reason == "stop",                    *)
(* usage.prompt_tokens == 3 and usage.completion_tokens == 2.              *)
(***************************************************************************)
HelloResponse ==
    NonStreamResponse(TRUE, << Candidate(<<TextHello>>, "STOP") >>, TRUE, UsageHello)

C21_HelloExample ==
    (googleResponse = HelloResponse /\ openaiResponse # Null) =>
        /\ openaiResponse.choices[1].message.content = << "hello" >>
        /\ openaiResponse.choices[1].finish_reason = "stop"
        /\ openaiResponse.usage.prompt_tokens = 3
        /\ openaiResponse.usage.completion_tokens = 2

(***************************************************************************)
(* C22: for every usage record, prompt_tokens = input + tool-prompt tokens *)
(* and completion_tokens = output-text + reasoning tokens (missing counts  *)
(* taken as 0); the image-token count is the sum of the IMAGE-modality     *)
(* detail entries, reported separately and never added into                *)
(* completion_tokens or prompt_tokens.                                     *)
(***************************************************************************)
\* the count under key, 0 when it is missing
CountOrZero(record, key) == IF key \in DOMAIN record THEN record[key] ELSE 0

\* the sum of the token counts of the first n detail entries of modality IMAGE
RECURSIVE ImageSum(_, _)
ImageSum(details, n) ==
    IF n = 0 THEN 0
    ELSE ImageSum(details, n - 1)
         + (IF "modality" \in DOMAIN details[n] /\ details[n]["modality"] = "IMAGE"
            THEN CountOrZero(details[n], "tokenCount") ELSE 0)

C22_UsageArithmetic ==
    (openaiResponse # Null /\ candidateOf(googleResponse) # Null
     /\ "usageMetadata" \in DOMAIN googleResponse) =>
        LET usage == googleResponse["usageMetadata"]
            result == openaiResponse.usage
            details == IF "candidatesTokensDetails" \in DOMAIN usage
                       THEN usage["candidatesTokensDetails"] ELSE <<>>
        IN /\ result.prompt_tokens = CountOrZero(usage, "promptTokenCount")
                                     + CountOrZero(usage, "toolUsePromptTokenCount")
           /\ result.completion_tokens = CountOrZero(usage, "candidatesTokenCount")
                                         + CountOrZero(usage, "thoughtsTokenCount")
           /\ result.completion_tokens_details.image_tokens = ImageSum(details, Len(details))

\* a record with image details and without reasoning and tool counts has been parsed
C22_Witness ==
    /\ openaiResponse # Null /\ candidateOf(googleResponse) # Null
    /\ "usageMetadata" \in DOMAIN googleResponse
    /\ DOMAIN googleResponse["usageMetadata"]
          = {"promptTokenCount", "candidatesTokenCount", "candidatesTokensDetails"}
    /\ openaiResponse.usage.completion_tokens_details.image_tokens > 0
    /\ openaiResponse.usage.completion_tokens > 0

(***************************************************************************)
(* C23: an unparseable remote fragment yields no chunk and raises no       *)
(* error, and leaves the stream state (response id, role-sent flag) and    *)
(* the usage cache unchanged, so the following fragments of the stream are *)
(* translated exactly as if it had not arrived.                            *)
(***************************************************************************)
\* the text after the "data: " prefix is not JSON
Unparseable(f) == f # Null /\ f.prefix /\ f.text \in {"", "{garbage"}

C23_UnparseableFragmentDropped ==
    [][(last'.op = "translateGoogleToOpenAIStream" /\ Unparseable(response'.fragment)) =>
          /\ chunks'.kind = "null" /\ chunks'.list = <<>>
          /\ response'.sent = response.sent
          /\ streamState' = streamState
          /\ streamUsage' = streamUsage]_vars

\* garbage arrived after the role was sent and a usage record was cached
C23_Witness ==
    /\ last.op = "translateGoogleToOpenAIStream"
    /\ Unparseable(response.fragment) /\ response.fragment.text = "{garbage"
    /\ "id" \in DOMAIN streamState /\ "roleSent" \in DOMAIN streamState
    /\ streamUsage # Null
    /\ chunks.kind = "null"

(***************************************************************************)
(* Properties of the session rotation.                                     *)
(***************************************************************************)
\* a step that began a switch by calling op
BeganSwitch(op) ==
    /\ outcome'.step \in {"recordSuccess", "recordFailure", "switchAccountRoute"}
    /\ outcome'.calls = <<op>>
    /\ outcome'.switch.phase = "activate"

\* a step in which an awaited activation ended, for a switch begun by op
Settled(op) ==
    /\ outcome'.step = "activationSettles"
    /\ outcome'.switch.op = op

\* the entry after current in the list, the first one after the last
CyclicSuccessor(list, current) ==
    LET k == CHOOSE j \in DOMAIN list : list[j] = current
    IN IF k = Len(list) THEN list[1] ELSE list[k + 1]

\* C24: switchToNext() asks the driver for the valid index that follows the
\* current one in cyclic order and, when that activation succeeds, reports it
\* as the new current index; when it fails the manager asks the driver for
\* the previous index again, and once that is active it reports
\* {success: false, fallback: true, newIndex: previous}, which the route
\* answers with 200.
C24_NextInCyclicOrderWithFallback ==
    [][/\ (BeganSwitch("switchToNext") /\ includes(availableIndices, currentAuthIndex))
          => /\ outcome'.switch.target
                    = CyclicSuccessor(availableIndices, currentAuthIndex)
             /\ outcome'.driver = <<outcome'.switch.target>>
             /\ outcome'.switch.previous = currentAuthIndex
       /\ (Settled("switchToNext") /\ outcome'.switch.phase = "activate"
              /\ currentAuthIndex' = outcome'.switch.target)
          => outcome'.result = Success(outcome'.switch.target)
       /\ (Settled("switchToNext") /\ outcome'.switch.phase = "activate"
              /\ currentAuthIndex' # outcome'.switch.target
              /\ outcome'.switch.previous >= 0)
          => /\ outcome'.driver = <<outcome'.switch.previous>>
             /\ outcome'.result = Null
       /\ (Settled("switchToNext") /\ outcome'.switch.phase = "fallback"
              /\ currentAuthIndex' = outcome'.switch.previous)
          => /\ outcome'.result = Fallback(outcome'.switch.previous)
             /\ outcome'.switch.origin = "route"
                   => outcome'.res.status = 200
                      /\ outcome'.res.newIndex = outcome'.switch.previous
      ]_vars

\* valid {0, 1, 2}, current 1: the activation of 2 failed, 1 is active again
C24_Witness ==
    /\ availableIndices = <<0, 1, 2>>
    /\ outcome.step = "activationSettles"
    /\ outcome.switch.target = 2
    /\ outcome.result = Fallback(1)
    /\ currentAuthIndex = 1

\* C25: in every reachable state the current index is -1 (none active) or a
\* member of the valid-indices list, whatever switches and activations have
\* failed or fallen back.
C25_CurrentIndexValidOrNone ==
    currentAuthIndex = -1 \/ includes(availableIndices, currentAuthIndex)

\* a switch whose activation and whose fallback both failed: none active
C25_Witness ==
    /\ outcome.step = "activationSettles"
    /\ outcome.switch.phase = "fallback"
    /\ outcome.result = Failure("Activation and fallback failed.")
    /\ currentAuthIndex = -1

\* a step in which a switch operation reported result
Reported ==
    /\ outcome'.switch # Null
    /\ outcome'.result # Null

\* C26: a switch that reports success, whoever asked for it (the route,
\* recordSuccess or recordFailure), leaves the usage counter and the failure
\* counter at zero; a step of a switch that does not report success (it is
\* rejected, falls back, or fails) resets neither counter.
C26_CountersResetOnSuccessOnly ==
    [][/\ (Reported /\ outcome'.result.success)
          => usageCount' = 0 /\ failureCount' = 0
       /\ (outcome'.switch # Null /\ ~(Reported /\ outcome'.result.success))
          => usageCount' >= usageCount /\ failureCount' >= failureCount
      ]_vars

\* a switch triggered by recordFailure has succeeded: nothing is counted
C26_Witness ==
    /\ outcome.step = "activationSettles"
    /\ outcome.switch.origin = "recordFailure"
    /\ outcome.result = Success(currentAuthIndex)
    /\ usageCount = 0
    /\ failureCount = 0

C28_FailureTriggersSwitch ==
    [][outcome'.step = "recordFailure"
          => /\ failureCount' = failureCount + 1
             /\ outcome'.input[1] \in config.immediateSwitchStatusCodes
                   => outcome'.calls = <<"switchToNext">>
             /\ outcome'.input[1] \notin config.immediateSwitchStatusCodes
                   => outcome'.calls
                        = IF config.failureThreshold > 0
                             /\ failureCount' >= config.failureThreshold
                          THEN <<"switchToNext">> ELSE <<>>
      ]_vars

\* a status code of the immediate-switch set, the failure counter still
\* below the threshold: switchToNext has been called
C28_Witness ==
    /\ outcome.step = "recordFailure"
    /\ outcome.input = <<429>>
    /\ 429 \in config.immediateSwitchStatusCodes
    /\ failureCount < config.failureThreshold
    /\ outcome.calls = <<"switchToNext">>

\* C29: switchToSpecific(index) with an index that is not in the
\* valid-indices list reports failure with a reason, asks nothing of the
\* driver and leaves the current index and both counters as they were (the
\* route answers 400 with the reason); with a valid index whose activation
\* succeeds it reports success, that index is current and both counters
\* are zero.
C29_SwitchToSpecificValidates ==
    [][/\ (outcome'.calls = <<"switchToSpecific">>
              /\ ~includes(availableIndices, outcome'.switch.target))
          => /\ outcome'.result # Null
             /\ ~outcome'.result.success
             /\ outcome'.result.reason # ""
             /\ outcome'.driver = <<>>
             /\ pending' = pending
             /\ UNCHANGED <<currentAuthIndex, usageCount, failureCount>>
             /\ outcome'.res = Send(400, "", -1, outcome'.result.reason)
       /\ (Settled("switchToSpecific")
              /\ currentAuthIndex' = outcome'.switch.target)
          => /\ includes(availableIndices, outcome'.switch.target)
             /\ outcome'.result = Success(outcome'.switch.target)
             /\ usageCount' = 0
             /\ failureCount' = 0
      ]_vars

\* the route asked for an index that is not valid while no switch was under
\* way: refused for that reason
C29_Witness ==
    /\ outcome.step = "switchAccountRoute"
    /\ outcome.calls = <<"switchToSpecific">>
    /\ ~includes(availableIndices, outcome.switch.target)
    /\ outcome.result = Failure("Invalid index: not among the valid accounts.")
    /\ outcome.res.status = 400

\* C30: at most one switch operation is under way at any time; a switch
\* asked for (by the route, by recordSuccess or by recordFailure) while the
\* activation of another is under way is rejected: it reports failure at
\* once, asks nothing of the driver, and leaves the switch under way and
\* the current index as they were.
C30_OneSwitchAtATime ==
    [][/\ Len(pending') <= 1
       /\ (pending # <<>> /\ outcome'.calls # <<>>)
          => /\ outcome'.result # Null
             /\ ~outcome'.result.success
             /\ outcome'.driver = <<>>
             /\ pending' = pending
             /\ currentAuthIndex' = currentAuthIndex
             /\ isAuthSwitching'
      ]_vars

\* recordFailure asked for a switch while the route's switch was under way:
\* rejected, the route's switch is still the only one
C30_Witness ==
    /\ outcome.step = "recordFailure"
    /\ outcome.result = Failure("Switch already in progress.")
    /\ Len(pending) = 1
    /\ pending[1].origin = "route"

\* C31: with one valid index a request for the next session, from the route
\* or from recordSuccess / recordFailure, reports failure in the same step
\* and asks nothing of the driver: no switch is under way, the current
\* index, the browser and the counters are as they were (but for the one
\* recordSuccess or recordFailure itself adds), and the route answers 400.
C31_SingleAccountNoOp ==
    [][(Len(availableIndices) = 1
          /\ outcome'.step \in {"recordSuccess", "recordFailure", "switchAccountRoute"}
          /\ outcome'.calls # <<"switchToSpecific">>)
        => /\ outcome'.driver = <<>>
           /\ UNCHANGED <<currentAuthIndex, browser, pending, isAuthSwitching>>
           /\ usageCount' = usageCount + (IF outcome'.step = "recordSuccess" THEN 1 ELSE 0)
           /\ failureCount' = failureCount + (IF outcome'.step = "recordFailure" THEN 1 ELSE 0)
           /\ outcome'.calls = <<"switchToNext">>
                 => outcome'.result # Null /\ ~outcome'.result.success
           /\ outcome'.step = "switchAccountRoute"
                 => outcome'.res # Null /\ outcome'.res.status = 400
      ]_vars

\* the one valid account is active and the route was asked for the next
C31_Witness ==
    /\ Len(availableIndices) = 1
    /\ currentAuthIndex = availableIndices[1]
    /\ outcome.step = "switchAccountRoute"
    /\ outcome.calls = <<>>
    /\ outcome.res.status = 400

\* response r is under way: begun, its terminal chunk not yet sent
InFlight(r) == streams[r].active /\ ~streams[r].finished

\* the usage record cached from the latest usage metadata of r's fragments
OwnUsage(r) ==
    IF streams[r].own = <<>> THEN Null
    ELSE parseUsage(streams[r].own[Len(streams[r].own)])

\* C32: with two responses translated in interleaved order, the usage a
\* response's terminal chunk carries was cached from a fragment of that
\* response, and the start of a new request leaves the usage cached for a
\* response under way in the cache.
C32_UsagePerResponse ==
    [][/\ \A r \in StreamNames :
             (streams'[r].finished /\ streams'[r].attached # Null)
                => \E k \in DOMAIN streams'[r].own :
                      streams'[r].attached = parseUsage(streams'[r].own[k])
       /\ \A r \in StreamNames :
             (last'.op = "translateOpenAIToGoogle" /\ InFlight(r)
                /\ streamUsage # Null /\ streamUsage = OwnUsage(r))
                => streamUsage' = streamUsage
      ]_vars

(***************************************************************************)
(* Properties of the registry under concurrent requests.                   *)
(***************************************************************************)
\* the request id an enqueued event carries; the end sentinel carries none
EventRequestId(e) == IF e = StreamEnd THEN Undefined ELSE e.request_id

\* the events of sequence t after its first n
After(t, n) == SubSeq(t, n + 1, Len(t))

\* C33: every event in the queue registered for request id R arrived in a
\* frame carrying request_id R, and the events of one id stand in that queue
\* in the order of their arrival: each arriving frame extends the queue of the
\* id it carries at the tail, by its own event only, and leaves the queue of
\* every other request as it was, whatever frames of other requests arrived
\* in between.
C33_PerRequestArrivalOrder ==
    [][\A m \in CorrelationFrames :
          (last'.op = "message" /\ handleIncomingMessage(m))
          => \A id \in DOMAIN messageQueues :
                LET q == messageQueues[id]
                IN IF id = CarriedRequestId(m)
                   THEN /\ IsPrefix(queues[q].enqueued, queues'[q].enqueued)
                        /\ After(queues'[q].enqueued, Len(queues[q].enqueued))
                              = ExpectedEvents(m)
                        /\ \A k \in DOMAIN queues'[q].enqueued :
                              EventRequestId(queues'[q].enqueued[k]) \in {id, Undefined}
                   ELSE queues'[q] = queues[q]]_vars

\* both requests are in flight: the first one's queue holds its two chunks in
\* arrival order while the second one's queue holds that request's chunk
C33_Witness ==
    /\ last.op = "message"
    /\ DOMAIN messageQueues = {"r1", "r2"}
    /\ queues[messageQueues["r1"]].enqueued
          = << [request_id |-> "r1", event_type |-> "chunk", data |-> "d2"],
               [request_id |-> "r1", event_type |-> "chunk", data |-> "d1"] >>
    /\ queues[messageQueues["r2"]].enqueued
          = << [request_id |-> "r2", event_type |-> "chunk", data |-> "d1"] >>

\* C34: all chunks emitted for one streaming response carry the same response
\* id and creation timestamp: the stream state receives them once, they are
\* those of the call that assigned them, every chunk sent for the response
\* carries them, and a later fragment of the response never reassigns them.
C34_OneIdPerResponse ==
    [][/\ \A k \in DOMAIN response'.sent :
             /\ "id" \in DOMAIN streamState'
             /\ response'.sent[k].id = streamState'["id"]
             /\ response'.sent[k].created = streamState'["created"]
       /\ ("id" \in DOMAIN streamState /\ last'.op = "translateGoogleToOpenAIStream")
             => /\ streamState'["id"] = streamState["id"]
                /\ streamState'["created"] = streamState["created"]
       /\ ("id" \notin DOMAIN streamState /\ "id" \in DOMAIN streamState')
             => /\ streamState'["id"] = Stamps[response'.fragments].id
                /\ streamState'["created"] = Stamps[response'.fragments].created
      ]_vars

\* the second fragment of a response has produced chunks: they and the chunks
\* of the first fragment carry the id and timestamp assigned at the first
C34_Witness ==
    /\ last.op = "translateGoogleToOpenAIStream"
    /\ response.fragments = 2
    /\ chunks.list # <<>>
    /\ Len(response.sent) > Len(chunks.list)
    /\ \A k \in DOMAIN response.sent :
          response.sent[k].id = Stamps[1].id /\ response.sent[k].created = Stamps[1].created

\* C35: every queue that is no longer reachable from the queue map, whether
\* removeMessageQueue, the teardown after connection loss or a second
\* createMessageQueue for its id took it out, has been closed.
C35_UnreachableQueuesClosed ==
    \A q \in QueueIds : Detached(q) => queues[q].closed

\* C36: connection loss is declared (every queue closed and discarded,
\* connectionLost emitted) only while no peer is registered: a grace timer
\* never expires into a teardown while a peer remains registered.
C36_TeardownOnlyWithoutPeer ==
    [][last'.emit = "connectionLost" => connections = {}]_vars

(***************************************************************************)
(* Properties of the browser driver.                                       *)
(***************************************************************************)
\* C37: when launchOrSwitchContext(authIndex) returns normally
\* currentAuthIndex is authIndex; whenever it throws currentAuthIndex is -1;
\* so currentAuthIndex >= 0 implies a live context and page.
C37_IndexTellsLiveContext ==
    [][/\ (manager'.last.op = "launchOrSwitchContext" /\ manager'.last.to = "returned")
             => manager'.currentAuthIndex = manager'.last.authIndex
       /\ (manager'.last.op = "launchOrSwitchContext" /\ manager'.last.to = "threw")
             => manager'.currentAuthIndex = -1
       /\ (manager'.calls = <<>> /\ manager'.currentAuthIndex >= 0)
             => (manager'.context /\ manager'.page = "open")
      ]_vars

\* attemptLightweightReconnect has nothing to reconnect
NothingToReconnect(m) ==
    ~m.browser \/ m.page \in {"null", "closed"} \/ m.currentAuthIndex < 0

\* C38: attemptLightweightReconnect never throws and returns a boolean; called
\* with the browser or page missing, the page closed or no current auth index
\* it returns false at once, before any navigation; and no step of it,
\* whether it goes on to succeed or to fail, changes currentAuthIndex.
C38_ReconnectKeepsIndex ==
    [][(manager' # manager /\ manager'.last.op = "attemptLightweightReconnect")
          => /\ manager'.currentAuthIndex = manager.currentAuthIndex
             /\ manager'.last.to \in Ends => manager'.last.to \in {"true", "false"}
             /\ (manager'.last.from = "entry" /\ NothingToReconnect(manager))
                   => (manager'.last.to = "false" /\ manager'.calls = manager.calls)
             /\ (manager'.last.from = "entry" /\ ~NothingToReconnect(manager))
                   => manager'.last.to = "inject"
      ]_vars

\* a reconnect of account 0 failed after navigating: it returned false and
\* account 0 is still current
C38_Witness ==
    /\ manager.last = Did("attemptLightweightReconnect", -1, "saveDebugArtifacts", "false")
    /\ manager.currentAuthIndex = 0
    /\ manager.browser /\ manager.page = "open"

\* a closeBrowser call is in progress: called directly or from the catch
\* block of launchOrSwitchContext, and suspended at browser.close()
Closing(m) == \E k \in DOMAIN m.calls : m.calls[k].pc = "close"

\* C39: isClosingIntentionally is true exactly while a closeBrowser call is in
\* progress, overlapping calls and the call made by a failing
\* launchOrSwitchContext included, and when a closeBrowser call completes
\* browser, context and page are null.
C39_FlagWhileClosing ==
    [][/\ manager'.isClosingIntentionally <=> Closing(manager')
       /\ (manager' # manager
           /\ \/ manager'.last.op = "closeBrowser" /\ manager'.last.to = "returned"
              \/ manager'.last.op = "launchOrSwitchContext" /\ manager'.last.to = "closed")
             => (~manager'.browser /\ ~manager'.context /\ manager'.page = "null")
      ]_vars

=============================================================================
